---------------------------- MODULE Spec2Model ----------------------------
(***************************************************************************)
(* A model of PyCEFRizer: the CEFR-J level estimator.                      *)
(*                                                                         *)
(* Python floats are modelled as exact rationals [n, d] (d > 0, lowest     *)
(* terms); float('inf') is the record PosInf.  A Python str is a sequence  *)
(* of one-character strings, a dict is a sequence of <<key, value>> pairs  *)
(* in insertion order.  A call that raises returns, in the model, a record *)
(* [kind |-> "error", err |-> <exception class>].                          *)
(***************************************************************************)
EXTENDS Integers, Sequences, FiniteSets, TLC

VARIABLES
    op,      \* the operation being called
    arg,     \* its arguments
    res,     \* Pending before the call; then what it returned or raised
    calls,   \* the collaborators the call invoked, in order
    env,     \* the data files on disk
    store    \* the ResourceManager of the analyzer: its tables and lru caches

vars == <<op, arg, res, calls, env, store>>

-----------------------------------------------------------------------------
(* Numbers *)

Abs(x) == IF x < 0 THEN -x ELSE x

RECURSIVE GCD(_, _)
GCD(a, b) == IF b = 0 THEN a ELSE GCD(b, a % b)

\* The rational n/d in lowest terms with a positive denominator.
Rat(n, d) ==
    LET s == IF d < 0 THEN -1 ELSE 1
        g == GCD(Abs(n), Abs(d))
    IN  IF n = 0 THEN [n |-> 0, d |-> 1]
        ELSE [n |-> (s * n) \div g, d |-> (s * d) \div g]

FromInt(i) == [n |-> i, d |-> 1]

PosInf == [n |-> 1, d |-> 0]

IsInf(x) == x.d = 0

LCM(a, b) == (a \div GCD(a, b)) * b

RatAdd(x, y) ==
    LET l == LCM(x.d, y.d)
    IN  Rat(x.n * (l \div x.d) + y.n * (l \div y.d), l)

RatMul(x, y) ==
    LET g1 == GCD(Abs(x.n), y.d)
        g2 == GCD(Abs(y.n), x.d)
        a == IF x.n = 0 THEN 1 ELSE g1
        b == IF y.n = 0 THEN 1 ELSE g2
    IN  Rat((x.n \div a) * (y.n \div b), (x.d \div b) * (y.d \div a))

\* x / y for y # 0
RatDiv(x, y) == RatMul(x, Rat(y.d, y.n))

\* x < y on floats; every finite float is below float('inf')
FloatLess(x, y) ==
    IF IsInf(y) THEN ~IsInf(x)
    ELSE IF IsInf(x) THEN FALSE
    ELSE x.n * y.d < y.n * x.d

FloatLessEq(x, y) == x = y \/ FloatLess(x, y)

RECURSIVE SumSeq(_)
SumSeq(s) == IF s = <<>> THEN FromInt(0) ELSE RatAdd(Head(s), SumSeq(Tail(s)))

\* list.sort() on a list of floats
Sorted(s) == SortSeq(s, FloatLess)

\* The candidates of round(x, 2), in hundredths.  Python rounds the binary
\* float, so a value that is an exact decimal tie (k.xx5) may come out on
\* either side; every other value has one nearest hundredth.
Round2Set(x) ==
    LET q   == x.n \div x.d                 \* floor
        r   == x.n - q * x.d                \* 0 <= r < d
        d1  == (10 * r) \div x.d            \* the digits of the tenths
        r1  == 10 * r - d1 * x.d
        d2  == (10 * r1) \div x.d           \* and of the hundredths
        rem == 10 * r1 - d2 * x.d
        lo  == 100 * q + 10 * d1 + d2
    IN  IF 2 * rem < x.d THEN {Rat(lo, 100)}
        ELSE IF 2 * rem > x.d THEN {Rat(lo + 1, 100)}
        ELSE {Rat(lo, 100), Rat(lo + 1, 100)}

-----------------------------------------------------------------------------
(* config.py *)

MIN_WORDS == 10
MAX_WORDS == 10000

CEFR_LEVELS ==
    ("A1" :> 1) @@ ("A2" :> 2) @@ ("B1" :> 3) @@ ("B2" :> 4) @@
    ("C1" :> 5) @@ ("C2" :> 6)

\* (slope, intercept) per metric
REGRESSION_COEFFICIENTS ==
    ("CVV1"        :> <<Rat(11059, 10000), Rat(-1208, 1000)>>)  @@
    ("BperA"       :> <<Rat(13146, 1000),  Rat(428, 1000)>>)    @@
    ("POStypes"    :> <<Rat(1768, 1000),   Rat(-12006, 1000)>>) @@
    ("ARI"         :> <<Rat(607, 1000),    Rat(-1632, 1000)>>)  @@
    ("AvrDiff"     :> <<Rat(6417, 1000),   Rat(-7184, 1000)>>)  @@
    ("AvrFreqRank" :> <<Rat(4, 1000),      Rat(-608, 1000)>>)   @@
    ("VperSent"    :> <<Rat(2203, 1000),   Rat(-2486, 1000)>>)  @@
    ("LenNP"       :> <<Rat(2629, 1000),   Rat(-6697, 1000)>>)

\* the table with its first two entries out of order
CEFR_J_BOUNDARIES_unordered ==
    << <<Rat(84, 100),  "A1.1">>,
       <<Rat(50, 100),  "preA1">>,
       <<Rat(117, 100), "A1.2">>,
       <<Rat(150, 100), "A1.3">>,
       <<Rat(200, 100), "A2.1">>,
       <<Rat(250, 100), "A2.2">>,
       <<Rat(300, 100), "B1.1">>,
       <<Rat(350, 100), "B1.2">>,
       <<Rat(400, 100), "B2.1">>,
       <<Rat(450, 100), "B2.2">>,
       <<Rat(550, 100), "C1">>,
       <<PosInf,        "C2">> >>

\* (boundary, level), in the order of the list
CEFR_J_BOUNDARIES ==
    << <<Rat(50, 100),  "preA1">>,
       <<Rat(84, 100),  "A1.1">>,
       <<Rat(117, 100), "A1.2">>,
       <<Rat(150, 100), "A1.3">>,
       <<Rat(200, 100), "A2.1">>,
       <<Rat(250, 100), "A2.2">>,
       <<Rat(300, 100), "B1.1">>,
       <<Rat(350, 100), "B1.2">>,
       <<Rat(400, 100), "B2.1">>,
       <<Rat(450, 100), "B2.2">>,
       <<Rat(550, 100), "C1">>,
       <<PosInf,        "C2">> >>

MAX_CEFR_SCORE == FromInt(7)

EXCLUDE_INFREQUENT_COUNT == 3

DEFAULT_FREQUENCY_RANK == 10000

CONTENT_POS_TAGS == {"NOUN", "VERB", "ADJ", "ADV"}

BE_VERBS ==
    { <<"b", "e">>, <<"a", "m">>, <<"i", "s">>, <<"a", "r", "e">>,
      <<"w", "a", "s">>, <<"w", "e", "r", "e">>, <<"b", "e", "e", "n">>,
      <<"b", "e", "i", "n", "g">> }

-----------------------------------------------------------------------------
(* Results *)

Ok(v) == [kind |-> "ok", val |-> v]

Raise(e, msg) == [kind |-> "error", err |-> e, msg |-> msg]

\* dict helpers: a dict is a sequence of <<key, value>> pairs
Keys(dict) == [i \in 1..Len(dict) |-> dict[i][1]]

Values(dict) == [i \in 1..Len(dict) |-> dict[i][2]]

KeySet(dict) == {dict[i][1] : i \in 1..Len(dict)}

-----------------------------------------------------------------------------
(* Python str: a sequence of one-character strings *)

Whitespace == {" ", "\t", "\n"}

IsSpace(c) == c \in Whitespace

Lower(c) == CASE c = "A" -> "a" [] c = "B" -> "b" [] OTHER -> c

\* str.lower()
lower(text) == [i \in 1..Len(text) |-> Lower(text[i])]

RECURSIVE FirstNonSpace(_, _)
FirstNonSpace(text, i) ==
    IF i > Len(text) \/ ~IsSpace(text[i]) THEN i ELSE FirstNonSpace(text, i + 1)

RECURSIVE LastNonSpace(_, _)
LastNonSpace(text, i) ==
    IF i < 1 \/ ~IsSpace(text[i]) THEN i ELSE LastNonSpace(text, i - 1)

\* str.strip(): without the leading and trailing whitespace
strip(text) == SubSeq(text, FirstNonSpace(text, 1), LastNonSpace(text, Len(text)))

\* len(text.split()): the number of maximal runs of non-whitespace
SplitCount(text) ==
    Cardinality({i \in 1..Len(text) :
                    ~IsSpace(text[i]) /\ (i = 1 \/ IsSpace(text[i - 1]))})

\* c in text
Contains(text, c) == \E i \in 1..Len(text) : text[i] = c

-----------------------------------------------------------------------------
(* resources.py: ResourceManager *)

Pending == [kind |-> "pending"]

\* data/word_lookup.json and data/coca_frequencies.json when they load
WORD_LOOKUP_JSON ==
    (<<"a">>      :> [base_form |-> <<"a">>,      pos |-> "noun", CEFR |-> "A1"]) @@
    (<<"a", "b">> :> [base_form |-> <<"a", "b">>, pos |-> "verb", CEFR |-> "B1"]) @@
    (<<"b", "a">> :> [base_form |-> <<"b", "a">>, pos |-> "noun", CEFR |-> "C1"]) @@
    (<<"B">>      :> [base_form |-> <<"b">>,      pos |-> "noun", CEFR |-> "A2"])

COCA_FREQUENCIES_JSON ==
    (<<"a">> :> 5) @@ (<<"A", "b">> :> 300) @@ (<<"b", "a">> :> 9000)

FileStates == {"ok", "missing", "malformed"}

FilesOk == [word_lookup_json |-> "ok", coca_frequencies_json |-> "ok"]

NotLoaded == [loaded |-> FALSE]

Loaded(table) == [loaded |-> TRUE, data |-> table]

\* __init__: both tables None, the three lru caches empty.  A cache is the
\* map from the argument to the cached return value (maxsize=10000 is
\* never reached by the calls drawn here, so nothing is evicted).
FreshStore ==
    [ word_lookup |-> NotLoaded, coca_frequencies |-> NotLoaded,
      get_word_level |-> <<>>, get_word_difficulty |-> <<>>,
      get_word_frequency_rank |-> <<>> ]

\* the one element of a singleton: Only({ body : x \in {call} }) is body
\* with x bound to what the call returned
Only(S) == CHOOSE x \in S : TRUE

Result(st, r) == [st |-> st, r |-> r]

\* _load_word_lookup(): json.load of the file, or ResourceLoadError
load_word_lookup(e) ==
    CASE e.word_lookup_json = "ok" -> Ok(WORD_LOOKUP_JSON)
      [] e.word_lookup_json = "missing" ->
             Raise("ResourceLoadError", "Word lookup file not found")
      [] OTHER -> Raise("ResourceLoadError", "Invalid JSON in word lookup file")

\* _load_coca_frequencies() keeping the keys as the file spells them
load_coca_frequencies_verbatim(e) ==
    CASE e.coca_frequencies_json = "ok" -> Ok(COCA_FREQUENCIES_JSON)
      [] e.coca_frequencies_json = "missing" ->
             Raise("ResourceLoadError", "COCA frequencies file not found")
      [] OTHER -> Raise("ResourceLoadError", "Invalid JSON in COCA frequencies file")

\* _load_coca_frequencies(): the keys are lower-cased on load
load_coca_frequencies(e) ==
    CASE e.coca_frequencies_json = "ok" ->
             Ok([w \in {lower(k) : k \in DOMAIN COCA_FREQUENCIES_JSON} |->
                    COCA_FREQUENCIES_JSON[
                        CHOOSE k \in DOMAIN COCA_FREQUENCIES_JSON : lower(k) = w]])
      [] e.coca_frequencies_json = "missing" ->
             Raise("ResourceLoadError", "COCA frequencies file not found")
      [] OTHER -> Raise("ResourceLoadError", "Invalid JSON in COCA frequencies file")

\* the word_lookup property: loads on first use
word_lookup(e, st) ==
    IF st.word_lookup.loaded THEN Result(st, Ok(st.word_lookup.data))
    ELSE LET l == load_word_lookup(e)
         IN  IF l.kind = "error" THEN Result(st, l)
             ELSE Result([st EXCEPT !.word_lookup = Loaded(l.val)], l)

\* the coca_frequencies property: loads on first use
coca_frequencies(e, st) ==
    IF st.coca_frequencies.loaded THEN Result(st, Ok(st.coca_frequencies.data))
    ELSE LET l == load_coca_frequencies(e)
         IN  IF l.kind = "error" THEN Result(st, l)
             ELSE Result([st EXCEPT !.coca_frequencies = Loaded(l.val)], l)

\* get_word_level(word), behind lru_cache: a hit returns the cached value;
\* a miss runs the body and caches its return value (never an exception).
\* None is the string "None".
get_word_level(e, st, word) ==
    IF word \in DOMAIN st.get_word_level
    THEN Result(st, Ok(st.get_word_level[word]))
    ELSE LET word_lower == lower(word)
             t          == word_lookup(e, st)
         IN  IF t.r.kind = "error" THEN t
             ELSE LET level == IF word_lower \in DOMAIN t.r.val
                               THEN t.r.val[word_lower].CEFR
                               ELSE "None"
                  IN  Result([t.st EXCEPT !.get_word_level = (word :> level) @@ @],
                             Ok(level))

\* get_word_difficulty(word), behind lru_cache
get_word_difficulty(e, st, word) ==
    IF word \in DOMAIN st.get_word_difficulty
    THEN Result(st, Ok(st.get_word_difficulty[word]))
    ELSE LET l == get_word_level(e, st, word)
         IN  IF l.r.kind = "error" THEN l
             ELSE LET difficulty ==
                          IF l.r.val = "None" THEN FromInt(0)
                          ELSE IF l.r.val \in DOMAIN CEFR_LEVELS
                               THEN FromInt(CEFR_LEVELS[l.r.val])
                               ELSE FromInt(0)
                  IN  Result([l.st EXCEPT !.get_word_difficulty =
                                              (word :> difficulty) @@ @],
                             Ok(difficulty))

\* get_word_frequency_rank(word), behind lru_cache
get_word_frequency_rank(e, st, word) ==
    IF word \in DOMAIN st.get_word_frequency_rank
    THEN Result(st, Ok(st.get_word_frequency_rank[word]))
    ELSE LET word_lower == lower(word)
             t          == coca_frequencies(e, st)
         IN  IF t.r.kind = "error" THEN t
             ELSE LET rank == IF word_lower \in DOMAIN t.r.val
                              THEN t.r.val[word_lower]
                              ELSE DEFAULT_FREQUENCY_RANK
                  IN  Result([t.st EXCEPT !.get_word_frequency_rank =
                                              (word :> rank) @@ @],
                             Ok(rank))

\* clear_cache() that forgets to clear the difficulty cache
clear_cache_partial(st) ==
    [st EXCEPT !.get_word_level = <<>>, !.get_word_frequency_rank = <<>>]

\* clear_cache(): cache_clear() on each of the three lru caches; the
\* tables stay as they are
clear_cache(st) ==
    [st EXCEPT !.get_word_level = <<>>, !.get_word_difficulty = <<>>,
               !.get_word_frequency_rank = <<>>]

-----------------------------------------------------------------------------
(* pycefrizer.py: PyCEFRizer.validate_input and get_word_cefr_level *)

\* no analyzer object: before the constructor, or after it raised
NoObject == [constructed |-> FALSE]

\* a constructor that reads both data files before it returns
PyCEFRizer_init_eager(e, spacy_model) ==
    IF spacy_model # "ok"
    THEN Result(NoObject, Raise("SpacyModelError", "spaCy model not found"))
    ELSE Only({ IF w.r.kind = "error" THEN Result(NoObject, w.r)
                ELSE Only({ IF c.r.kind = "error" THEN Result(NoObject, c.r)
                            ELSE Result(c.st, Ok("PyCEFRizer"))
                            : c \in { coca_frequencies(e, w.st) } })
                : w \in { word_lookup(e, FreshStore) } })

\* PyCEFRizer.__init__: _load_spacy_model, then ResourceManager(data_dir),
\* MetricsCalculator and CEFRMapper, none of which opens a data file
PyCEFRizer_init(e, spacy_model) ==
    IF spacy_model # "ok"
    THEN Result(NoObject, Raise("SpacyModelError", "spaCy model not found"))
    ELSE Result(FreshStore, Ok("PyCEFRizer"))

\* validate_input with the upper limit itself rejected
validate_input_exclusive(text) ==
    IF text = <<>> \/ strip(text) = <<>>
    THEN Raise("TextLengthError", "Input text cannot be empty")
    ELSE LET word_count == SplitCount(text)
         IN  IF word_count < MIN_WORDS
             THEN Raise("TextLengthError", "Text is too short")
             ELSE IF word_count >= MAX_WORDS
                  THEN Raise("TextLengthError", "Text is too long")
                  ELSE Ok(word_count)

validate_input(text) ==
    IF text = <<>> \/ strip(text) = <<>>
    THEN Raise("TextLengthError", "Input text cannot be empty")
    ELSE LET word_count == SplitCount(text)
         IN  IF word_count < MIN_WORDS
             THEN Raise("TextLengthError", "Text is too short")
             ELSE IF word_count > MAX_WORDS
                  THEN Raise("TextLengthError", "Text is too long")
                  ELSE Ok(word_count)

\* returns the level, or "" when the word is not found
get_word_cefr_level(e, st, word0) ==
    LET word == lower(strip(word0))
    IN  IF Contains(word, " ") \/ word = <<>>
        THEN Result(st, Ok(""))
        ELSE LET l == get_word_level(e, st, word)
             IN  IF l.r.kind = "error" THEN l
                 ELSE IF l.r.val # "None" /\ l.r.val # ""
                      THEN Result(l.st, Ok(l.r.val))
                      ELSE Result(l.st, Ok(""))

\* the words a document uses: the lower-cased text and the lemma of each
\* token that is neither punctuation nor white space
UsedWords(doc) ==
    UNION { {lower(doc.tokens[i].text), doc.tokens[i].lemma} :
              i \in {j \in 1..Len(doc.tokens) :
                        ~doc.tokens[j].is_punct /\ ~doc.tokens[j].is_space} }

MustBeOneOf == ". Must be one of: A1, A2, B1, B2, C1, C2"

\* get_unused_words matching the surface text only
get_unused_words_surface_only(e, st, level, doc) ==
    IF level \notin DOMAIN CEFR_LEVELS
    THEN Result(st, Raise("ValueError", "Invalid CEFR level: " \o level \o MustBeOneOf))
    ELSE Only({
           IF t.r.kind = "error" THEN t
           ELSE LET used   == {lower(doc.tokens[i].text) :
                                 i \in {j \in 1..Len(doc.tokens) :
                                           ~doc.tokens[j].is_punct /\ ~doc.tokens[j].is_space}}
                    unused == {k \in DOMAIN t.r.val :
                                 /\ t.r.val[k].CEFR = level
                                 /\ t.r.val[k].base_form \notin used}
                IN  Result(t.st,
                       Ok([w \in {t.r.val[k].base_form : k \in unused} |->
                              t.r.val[CHOOSE k \in unused : t.r.val[k].base_form = w].pos]))
           : t \in {word_lookup(e, st)} })

\* get_unused_words answering an unknown level with the empty mapping
get_unused_words_lenient(e, st, level, doc) ==
    IF level \notin DOMAIN CEFR_LEVELS
    THEN Result(st, Ok(<<>>))
    ELSE Only({
           IF t.r.kind = "error" THEN t
           ELSE LET used   == UsedWords(doc)
                    unused == {k \in DOMAIN t.r.val :
                                 /\ t.r.val[k].CEFR = level
                                 /\ t.r.val[k].base_form \notin used}
                IN  Result(t.st,
                       Ok([w \in {t.r.val[k].base_form : k \in unused} |->
                              t.r.val[CHOOSE k \in unused : t.r.val[k].base_form = w].pos]))
           : t \in {word_lookup(e, st)} })

\* get_unused_words(level, text), on the document the nlp makes of the
\* text: the level is checked first, then every entry of the word table
\* at that level whose base form is not used gives base form -> pos
get_unused_words(e, st, level, doc) ==
    IF level \notin DOMAIN CEFR_LEVELS
    THEN Result(st, Raise("ValueError", "Invalid CEFR level: " \o level \o MustBeOneOf))
    ELSE Only({
           IF t.r.kind = "error" THEN t
           ELSE LET used   == UsedWords(doc)
                    unused == {k \in DOMAIN t.r.val :
                                 /\ t.r.val[k].CEFR = level
                                 /\ t.r.val[k].base_form \notin used}
                IN  Result(t.st,
                       Ok([w \in {t.r.val[k].base_form : k \in unused} |->
                              t.r.val[CHOOSE k \in unused : t.r.val[k].base_form = w].pos]))
           : t \in {word_lookup(e, st)} })

-----------------------------------------------------------------------------
(* word_lookup.py: the convenience functions over the global _analyzer;
   the store is NoObject while _analyzer is None *)

\* str.upper() on the target levels passed here
str_upper(s) ==
    CASE s = "a1" -> "A1" [] s = "a2" -> "A2" [] s = "b1" -> "B1"
      [] s = "b2" -> "B2" [] s = "c1" -> "C1" [] s = "c2" -> "C2"
      [] s = "x1" -> "X1" [] OTHER -> s

level_order == <<"A1", "A2", "B1", "B2", "C1", "C2">>

\* list.index(x) for an x that is in the list
Index(list, x) == CHOOSE i \in 1..Len(list) : list[i] = x /\ \A j \in 1..(i - 1) : list[j] # x

InList(list, x) == \E i \in 1..Len(list) : list[i] = x

\* word_lookup.get_word_level(word): creates the global analyzer on first use
word_lookup_get_word_level(e, st, spacy_model, word) ==
    IF st = NoObject
    THEN Only({ IF a.r.kind = "error" THEN a
                ELSE get_word_cefr_level(e, a.st, word)
                : a \in {PyCEFRizer_init(e, spacy_model)} })
    ELSE get_word_cefr_level(e, st, word)

\* check_word_level with a strict comparison
check_word_level_strict(e, st, spacy_model, word, target_level) ==
    Only({ IF l.r.kind = "error" THEN l
           ELSE IF l.r.val = "" THEN Result(l.st, Ok(FALSE))
           ELSE IF ~InList(level_order, l.r.val) THEN Result(l.st, Ok(FALSE))
           ELSE IF ~InList(level_order, str_upper(target_level))
                THEN Result(l.st, Ok(FALSE))
           ELSE Result(l.st, Ok(Index(level_order, l.r.val)
                                  < Index(level_order, str_upper(target_level))))
           : l \in {word_lookup_get_word_level(e, st, spacy_model, word)} })

\* check_word_level(word, target_level): a ValueError of either index()
\* call is caught and answered with False
check_word_level(e, st, spacy_model, word, target_level) ==
    Only({ IF l.r.kind = "error" THEN l
           ELSE IF l.r.val = "" THEN Result(l.st, Ok(FALSE))
           ELSE IF ~InList(level_order, l.r.val) THEN Result(l.st, Ok(FALSE))
           ELSE IF ~InList(level_order, str_upper(target_level))
                THEN Result(l.st, Ok(FALSE))
           ELSE Result(l.st, Ok(Index(level_order, l.r.val)
                                  <= Index(level_order, str_upper(target_level))))
           : l \in {word_lookup_get_word_level(e, st, spacy_model, word)} })

-----------------------------------------------------------------------------
(* cefr_mapping.py: CEFRMapper *)

\* apply_regression with its result also raised to a floor of 0
apply_regression_floored(metric_value, metric_name) ==
    IF metric_name \notin DOMAIN REGRESSION_COEFFICIENTS
    THEN Raise("ValueError", "Unknown metric: " \o metric_name)
    ELSE LET slope      == REGRESSION_COEFFICIENTS[metric_name][1]
             intercept  == REGRESSION_COEFFICIENTS[metric_name][2]
             cefr_score == RatAdd(RatMul(metric_value, slope), intercept)
         IN  Ok(IF FloatLess(MAX_CEFR_SCORE, cefr_score) THEN MAX_CEFR_SCORE
                ELSE IF cefr_score.n < 0 THEN FromInt(0) ELSE cefr_score)

apply_regression(metric_value, metric_name) ==
    IF metric_name \notin DOMAIN REGRESSION_COEFFICIENTS
    THEN Raise("ValueError", "Unknown metric: " \o metric_name)
    ELSE LET slope      == REGRESSION_COEFFICIENTS[metric_name][1]
             intercept  == REGRESSION_COEFFICIENTS[metric_name][2]
             cefr_score == RatAdd(RatMul(metric_value, slope), intercept)
         IN  \* min(cefr_score, MAX_CEFR_SCORE)
             Ok(IF FloatLess(MAX_CEFR_SCORE, cefr_score)
                THEN MAX_CEFR_SCORE ELSE cefr_score)

\* the loop with the unknown metric logged and the scores so far returned
RECURSIVE ScoreLoop_partial(_, _, _)
ScoreLoop_partial(metrics, i, cefr_scores) ==
    IF i > Len(metrics) THEN {Ok(cefr_scores)}
    ELSE LET metric_name == metrics[i][1]
             sc          == apply_regression(metrics[i][2], metric_name)
         IN  IF sc.kind = "error" THEN {Ok(cefr_scores)}
             ELSE UNION { ScoreLoop_partial(metrics, i + 1,
                              Append(cefr_scores, <<metric_name \o "_CEFR", r>>)) :
                          r \in Round2Set(sc.val) }

\* The loop of calculate_cefr_scores from item i on, cefr_scores being the
\* dict built so far: the first ValueError is re-raised and nothing is
\* returned; the set is over the candidates of each round(cefr_score, 2).
RECURSIVE ScoreLoop(_, _, _)
ScoreLoop(metrics, i, cefr_scores) ==
    IF i > Len(metrics) THEN {Ok(cefr_scores)}
    ELSE LET metric_name == metrics[i][1]
             sc          == apply_regression(metrics[i][2], metric_name)
         IN  IF sc.kind = "error" THEN {sc}
             ELSE UNION { ScoreLoop(metrics, i + 1,
                              Append(cefr_scores, <<metric_name \o "_CEFR", r>>)) :
                          r \in Round2Set(sc.val) }

calculate_cefr_scores(metrics) == ScoreLoop(metrics, 1, <<>>)

\* trimming that removes every score equal to the minimum or the maximum
calculate_final_level_dropall(cefr_scores) ==
    LET scores == Values(cefr_scores)
    IN  IF Len(scores) <= 2
        THEN IF Len(scores) > 0
             THEN RatDiv(SumSeq(scores), FromInt(Len(scores)))
             ELSE FromInt(0)
        ELSE LET sorted        == Sorted(scores)
                 middle_scores == SelectSeq(sorted,
                                      LAMBDA x : x # sorted[1] /\ x # sorted[Len(sorted)])
             IN  IF middle_scores = <<>>
                 THEN FromInt(0)
                 ELSE RatDiv(SumSeq(middle_scores), FromInt(Len(middle_scores)))

\* trimming without the sort
calculate_final_level_unsorted(cefr_scores) ==
    LET scores == Values(cefr_scores)
    IN  IF Len(scores) <= 2
        THEN IF Len(scores) > 0
             THEN RatDiv(SumSeq(scores), FromInt(Len(scores)))
             ELSE FromInt(0)
        ELSE LET middle_scores == SubSeq(scores, 2, Len(scores) - 1)
             IN  IF middle_scores = <<>>
                 THEN FromInt(0)
                 ELSE RatDiv(SumSeq(middle_scores), FromInt(Len(middle_scores)))

\* trimming from 2 scores on
calculate_final_level_trim2(cefr_scores) ==
    LET scores == Values(cefr_scores)
    IN  IF Len(scores) < 2
        THEN IF Len(scores) > 0
             THEN RatDiv(SumSeq(scores), FromInt(Len(scores)))
             ELSE FromInt(0)
        ELSE LET sorted        == Sorted(scores)
                 middle_scores == SubSeq(sorted, 2, Len(sorted) - 1)
             IN  IF middle_scores = <<>>
                 THEN FromInt(0)
                 ELSE RatDiv(SumSeq(middle_scores), FromInt(Len(middle_scores)))

calculate_final_level(cefr_scores) ==
    LET scores == Values(cefr_scores)
    IN  IF Len(scores) <= 2
        THEN IF Len(scores) > 0
             THEN RatDiv(SumSeq(scores), FromInt(Len(scores)))
             ELSE FromInt(0)
        ELSE LET sorted        == Sorted(scores)
                 middle_scores == SubSeq(sorted, 2, Len(sorted) - 1)
             IN  IF middle_scores = <<>>
                 THEN FromInt(0)
                 ELSE RatDiv(SumSeq(middle_scores), FromInt(Len(middle_scores)))

\* the boundary test as score <= boundary
RECURSIVE FirstBoundary_inclusive(_, _)
FirstBoundary_inclusive(score, i) ==
    IF i > Len(CEFR_J_BOUNDARIES) THEN "C2"
    ELSE IF FloatLessEq(score, CEFR_J_BOUNDARIES[i][1])
         THEN CEFR_J_BOUNDARIES[i][2]
         ELSE FirstBoundary_inclusive(score, i + 1)

RECURSIVE FirstBoundary(_, _)
FirstBoundary(score, i) ==
    IF i > Len(CEFR_J_BOUNDARIES) THEN "C2"
    ELSE IF FloatLess(score, CEFR_J_BOUNDARIES[i][1])
         THEN CEFR_J_BOUNDARIES[i][2]
         ELSE FirstBoundary(score, i + 1)

map_to_cefr_j(score) == FirstBoundary(score, 1)

\* str(score) of a float with at most two decimals: Python prints the
\* shortest decimal text, with at least one digit after the point
\* (7.0 -> "7.0", 2.1 -> "2.1", 0.05 -> "0.05", -1.02 -> "-1.02").
FormatScore(score) ==
    LET h    == score.n * (100 \div score.d)
        ip   == Abs(h) \div 100
        fp   == Abs(h) % 100
        frac == IF fp % 10 = 0 THEN ToString(fp \div 10)
                ELSE IF fp < 10 THEN "0" \o ToString(fp)
                ELSE ToString(fp)
    IN  (IF h < 0 THEN "-" ELSE "") \o ToString(ip) \o "." \o frac

\* The outcomes of process_metrics(metrics): (CEFR-J level, formatted scores)
process_metrics(metrics) ==
    { IF cs.kind = "error" THEN cs
      ELSE LET final_score  == calculate_final_level(cs.val)
               cefr_j_level == map_to_cefr_j(final_score)
               formatted    == [i \in 1..Len(cs.val) |->
                                   <<cs.val[i][1], FormatScore(cs.val[i][2])>>]
           IN  Ok(<<cefr_j_level, formatted>>)
      : cs \in calculate_cefr_scores(metrics) }

\* process_metrics aggregating the regression outputs cut to four decimals,
\* finer than the two decimals it publishes
process_metrics_calls_finer(metrics) ==
    { IF cs.kind = "error"
      THEN [r |-> cs, calls |-> << <<"calculate_cefr_scores", cs>> >>]
      ELSE LET Cut4(x)      == Rat((x.n * 10000) \div x.d, 10000)
               finer        == [i \in 1..Len(metrics) |->
                                   <<metrics[i][1] \o "_CEFR",
                                     Cut4(apply_regression(metrics[i][2],
                                                           metrics[i][1]).val)>>]
               final_score  == calculate_final_level(finer)
               cefr_j_level == map_to_cefr_j(final_score)
               formatted    == [i \in 1..Len(cs.val) |->
                                   <<cs.val[i][1], FormatScore(cs.val[i][2])>>]
           IN  [r     |-> Ok(<<cefr_j_level, formatted>>),
                calls |-> << <<"calculate_cefr_scores", cs>>,
                             <<"calculate_final_level", Ok(final_score)>>,
                             <<"map_to_cefr_j", Ok(cefr_j_level)>> >>]
      : cs \in calculate_cefr_scores(metrics) }

\* process_metrics(metrics) with the calls it makes, in the order it makes
\* them, each with what it returned
process_metrics_calls(metrics) ==
    { IF cs.kind = "error"
      THEN [r |-> cs, calls |-> << <<"calculate_cefr_scores", cs>> >>]
      ELSE LET final_score  == calculate_final_level(cs.val)
               cefr_j_level == map_to_cefr_j(final_score)
               formatted    == [i \in 1..Len(cs.val) |->
                                   <<cs.val[i][1], FormatScore(cs.val[i][2])>>]
           IN  [r     |-> Ok(<<cefr_j_level, formatted>>),
                calls |-> << <<"calculate_cefr_scores", cs>>,
                             <<"calculate_final_level", Ok(final_score)>>,
                             <<"map_to_cefr_j", Ok(cefr_j_level)>> >>]
      : cs \in calculate_cefr_scores(metrics) }

-----------------------------------------------------------------------------
(* metrics.py: MetricsCalculator.  A spaCy Doc is the record               *)
(* [tokens, sents, noun_chunks]; a Token is [text, lemma, pos, is_punct,   *)
(* is_stop, is_space].                                                     *)

Count(seq, P(_)) == Cardinality({i \in 1..Len(seq) : P(seq[i])})

\* wraps the exception of an extractor: except Exception as e: raise ...
\* the exception an extractor's try-body meets on a document that cannot
\* provide what the body reads (doc.fault names that extractor)
UnexpectedError == Raise("ValueError", "unexpected error")

MetricError(name, r) ==
    Raise("MetricCalculationError", "Failed to calculate " \o name \o ": " \o r.msg)

SQRT_SCALE == 1000

RECURSIVE ISqrtBetween(_, _, _)
ISqrtBetween(n, lo, hi) ==
    IF lo >= hi THEN lo
    ELSE LET mid == (lo + hi + 1) \div 2
         IN  IF mid * mid <= n THEN ISqrtBetween(n, mid, hi)
             ELSE ISqrtBetween(n, lo, mid - 1)

\* math.sqrt(k) for a small natural k, to the nearest 1/SQRT_SCALE
Sqrt(k) ==
    LET n == k * SQRT_SCALE * SQRT_SCALE
        r == ISqrtBetween(n, 0, (k + 1) * SQRT_SCALE)
    IN  IF (r + 1) * (r + 1) - n < n - r * r
        THEN Rat(r + 1, SQRT_SCALE) ELSE Rat(r, SQRT_SCALE)

\* resources.py get_content_words(doc)
get_content_words(doc) ==
    SelectSeq(doc.tokens,
              LAMBDA token : ~(token.is_punct \/ token.is_stop)
                             /\ token.pos \in CONTENT_POS_TAGS)

\* calculate_cvv1 counting the forms of be among the verbs
calculate_cvv1_counting_be(doc) ==
    IF doc.fault = "CVV1" THEN MetricError("CVV1", UnexpectedError) ELSE
    LET IsVerb(token) == token.pos = "VERB"
        verb_tokens   == SelectSeq(doc.tokens, IsVerb)
        verb_types    == {lower(verb_tokens[i].lemma) : i \in 1..Len(verb_tokens)}
        num_tokens    == Len(verb_tokens)
        num_types     == Cardinality(verb_types)
    IN  IF num_types = 0 THEN Ok(FromInt(0))
        ELSE Ok(RatDiv(FromInt(num_tokens), Sqrt(2 * num_types)))

calculate_cvv1(doc) ==
    IF doc.fault = "CVV1" THEN MetricError("CVV1", UnexpectedError) ELSE
    LET IsVerb(token) == token.pos = "VERB" /\ lower(token.lemma) \notin BE_VERBS
        verb_tokens   == SelectSeq(doc.tokens, IsVerb)
        verb_types    == {lower(verb_tokens[i].lemma) : i \in 1..Len(verb_tokens)}
        num_tokens    == Len(verb_tokens)
        num_types     == Cardinality(verb_types)
    IN  IF num_types = 0 THEN Ok(FromInt(0))
        ELSE Ok(RatDiv(FromInt(num_tokens), Sqrt(2 * num_types)))

\* resources.py get_content_words_by_level(doc): the loop from token i on
RECURSIVE ByLevelLoop(_, _, _, _, _)
ByLevelLoop(e, st, content_words, i, words_by_level) ==
    IF i > Len(content_words) THEN Result(st, Ok(words_by_level))
    ELSE LET token      == content_words[i]
             word_text  == lower(token.text)
             word_lemma == lower(token.lemma)
         IN  Only({
             IF l1.r.kind = "error" THEN l1
             ELSE Only({
                  IF l2.r.kind = "error" THEN l2
                  ELSE LET level == l2.r.val
                           key   == IF level = "None" \/ level = ""
                                    THEN "unknown" ELSE level
                       IN  IF key \notin DOMAIN words_by_level
                           THEN Result(l2.st, Raise("KeyError", key))
                           ELSE ByLevelLoop(e, l2.st, content_words, i + 1,
                                    [words_by_level EXCEPT
                                        ![key] = Append(@, word_lemma)])
                  : l2 \in { IF l1.r.val = "None" \/ l1.r.val = ""
                             THEN get_word_level(e, l1.st, word_lemma)
                             ELSE l1 } })
             : l1 \in { get_word_level(e, st, word_text) } })

get_content_words_by_level(e, st, doc) ==
    ByLevelLoop(e, st, get_content_words(doc), 1,
                [l \in {"A1", "A2", "B1", "B2", "C1", "C2", "unknown"} |-> <<>>])

\* calculate_bpera counting the C1 words among the B-level ones
calculate_bpera_counting_c(e, st, doc) ==
    IF doc.fault = "BperA" THEN Result(st, MetricError("BperA", UnexpectedError)) ELSE
    Only({
        IF w.r.kind = "error" THEN Result(w.st, MetricError("BperA", w.r))
        ELSE LET a_level_count == Len(w.r.val["A1"]) + Len(w.r.val["A2"])
                 b_level_count == Len(w.r.val["B1"]) + Len(w.r.val["B2"]) + Len(w.r.val["C1"])
             IN  IF a_level_count = 0 THEN Result(w.st, Ok(FromInt(0)))
                 ELSE Result(w.st, Ok(Rat(b_level_count, a_level_count)))
        : w \in { get_content_words_by_level(e, st, doc) } })

calculate_bpera(e, st, doc) ==
    IF doc.fault = "BperA" THEN Result(st, MetricError("BperA", UnexpectedError)) ELSE
    Only({
        IF w.r.kind = "error" THEN Result(w.st, MetricError("BperA", w.r))
        ELSE LET a_level_count == Len(w.r.val["A1"]) + Len(w.r.val["A2"])
                 b_level_count == Len(w.r.val["B1"]) + Len(w.r.val["B2"])
             IN  IF a_level_count = 0 THEN Result(w.st, Ok(FromInt(0)))
                 ELSE Result(w.st, Ok(Rat(b_level_count, a_level_count)))
        : w \in { get_content_words_by_level(e, st, doc) } })

\* calculate_postypes dividing by the number of sentences whatever it is
calculate_postypes_undivided(doc) ==
    IF doc.fault = "POStypes" THEN MetricError("POStypes", UnexpectedError) ELSE
    LET PosTags(sent) == {sent[i].pos : i \in {j \in 1..Len(sent) : ~sent[j].is_punct}}
        counts        == [k \in 1..Len(doc.sents) |->
                             FromInt(Cardinality(PosTags(doc.sents[k])))]
        num_sentences == Len(doc.sents)
    IN  IF num_sentences = 0
        THEN MetricError("POStypes", Raise("ZeroDivisionError", "division by zero"))
        ELSE Ok(RatDiv(SumSeq(counts), FromInt(num_sentences)))

calculate_postypes(doc) ==
    IF doc.fault = "POStypes" THEN MetricError("POStypes", UnexpectedError) ELSE
    LET PosTags(sent) == {sent[i].pos : i \in {j \in 1..Len(sent) : ~sent[j].is_punct}}
        counts        == [k \in 1..Len(doc.sents) |->
                             FromInt(Cardinality(PosTags(doc.sents[k])))]
        num_sentences == Len(doc.sents)
    IN  IF num_sentences = 0 THEN Ok(FromInt(0))
        ELSE Ok(RatDiv(SumSeq(counts), FromInt(num_sentences)))

\* calculate_ari letting the failure of textstat out, as the others do
calculate_ari_raising(text, ari) ==
    IF ari.kind = "error" THEN MetricError("ARI", ari) ELSE Ok(ari.val)

\* ari is what textstat.automated_readability_index(text) does
calculate_ari(text, ari) ==
    IF ari.kind = "error" THEN Ok(FromInt(0)) ELSE Ok(ari.val)

\* the loop of calculate_avrdiff from content word i on
RECURSIVE AvrDiffLoop(_, _, _, _, _, _)
AvrDiffLoop(e, st, content_words, i, total_difficulty, counted_words) ==
    IF i > Len(content_words)
    THEN Result(st, Ok(<<total_difficulty, counted_words>>))
    ELSE LET token      == content_words[i]
             word_text  == lower(token.text)
             word_lemma == lower(token.lemma)
         IN  Only({
             IF d1.r.kind = "error" THEN d1
             ELSE Only({
                  IF d2.r.kind = "error" THEN d2
                  ELSE IF d2.r.val.n > 0
                       THEN AvrDiffLoop(e, d2.st, content_words, i + 1,
                                RatAdd(total_difficulty, d2.r.val),
                                counted_words + 1)
                       ELSE AvrDiffLoop(e, d2.st, content_words, i + 1,
                                total_difficulty, counted_words)
                  : d2 \in { IF d1.r.val = FromInt(0)
                             THEN get_word_difficulty(e, d1.st, word_lemma)
                             ELSE d1 } })
             : d1 \in { get_word_difficulty(e, st, word_text) } })

\* calculate_avrdiff dividing by the number of content words, matched or not
calculate_avrdiff_over_all(e, st, doc) ==
    IF doc.fault = "AvrDiff" THEN Result(st, MetricError("AvrDiff", UnexpectedError)) ELSE
    LET content_words == get_content_words(doc)
    IN  IF content_words = <<>> THEN Result(st, Ok(FromInt(0)))
        ELSE Only({
             IF l.r.kind = "error" THEN Result(l.st, MetricError("AvrDiff", l.r))
             ELSE IF l.r.val[2] = 0 THEN Result(l.st, Ok(FromInt(0)))
             ELSE Result(l.st, Ok(RatDiv(l.r.val[1], FromInt(Len(content_words)))))
             : l \in { AvrDiffLoop(e, st, content_words, 1, FromInt(0), 0) } })

calculate_avrdiff(e, st, doc) ==
    IF doc.fault = "AvrDiff" THEN Result(st, MetricError("AvrDiff", UnexpectedError)) ELSE
    LET content_words == get_content_words(doc)
    IN  IF content_words = <<>> THEN Result(st, Ok(FromInt(0)))
        ELSE Only({
             IF l.r.kind = "error" THEN Result(l.st, MetricError("AvrDiff", l.r))
             ELSE IF l.r.val[2] = 0 THEN Result(l.st, Ok(FromInt(0)))
             ELSE Result(l.st, Ok(RatDiv(l.r.val[1], FromInt(l.r.val[2]))))
             : l \in { AvrDiffLoop(e, st, content_words, 1, FromInt(0), 0) } })

\* the loop of calculate_avrfreqrank from token i on
RECURSIVE RankLoop(_, _, _, _, _)
RankLoop(e, st, tokens, i, ranks) ==
    IF i > Len(tokens) THEN Result(st, Ok(ranks))
    ELSE IF tokens[i].is_punct \/ tokens[i].is_space
         THEN RankLoop(e, st, tokens, i + 1, ranks)
         ELSE Only({
              IF k.r.kind = "error" THEN k
              ELSE RankLoop(e, k.st, tokens, i + 1, Append(ranks, FromInt(k.r.val)))
              : k \in { get_word_frequency_rank(e, st, lower(tokens[i].text)) } })

\* calculate_avrfreqrank dropping the last three ranks without sorting first
calculate_avrfreqrank_unsorted(e, st, doc) ==
    IF doc.fault = "AvrFreqRank" THEN Result(st, MetricError("AvrFreqRank", UnexpectedError)) ELSE
    Only({
        IF l.r.kind = "error" THEN Result(l.st, MetricError("AvrFreqRank", l.r))
        ELSE LET ranks == l.r.val
             IN  IF Len(ranks) <= EXCLUDE_INFREQUENT_COUNT
                 THEN IF ranks # <<>>
                      THEN Result(l.st, Ok(RatDiv(SumSeq(ranks), FromInt(Len(ranks)))))
                      ELSE Result(l.st, Ok(FromInt(0)))
                 ELSE LET kept == SubSeq(ranks, 1,
                                         Len(ranks) - EXCLUDE_INFREQUENT_COUNT)
                      IN  IF kept # <<>>
                          THEN Result(l.st, Ok(RatDiv(SumSeq(kept), FromInt(Len(kept)))))
                          ELSE Result(l.st, Ok(FromInt(0)))
        : l \in { RankLoop(e, st, doc.tokens, 1, <<>>) } })

calculate_avrfreqrank(e, st, doc) ==
    IF doc.fault = "AvrFreqRank" THEN Result(st, MetricError("AvrFreqRank", UnexpectedError)) ELSE
    Only({
        IF l.r.kind = "error" THEN Result(l.st, MetricError("AvrFreqRank", l.r))
        ELSE LET ranks == l.r.val
             IN  IF Len(ranks) <= EXCLUDE_INFREQUENT_COUNT
                 THEN IF ranks # <<>>
                      THEN Result(l.st, Ok(RatDiv(SumSeq(ranks), FromInt(Len(ranks)))))
                      ELSE Result(l.st, Ok(FromInt(0)))
                 ELSE LET kept == SubSeq(Sorted(ranks), 1,
                                         Len(ranks) - EXCLUDE_INFREQUENT_COUNT)
                      IN  IF kept # <<>>
                          THEN Result(l.st, Ok(RatDiv(SumSeq(kept), FromInt(Len(kept)))))
                          ELSE Result(l.st, Ok(FromInt(0)))
        : l \in { RankLoop(e, st, doc.tokens, 1, <<>>) } })

calculate_vpersent(doc) ==
    IF doc.fault = "VperSent" THEN MetricError("VperSent", UnexpectedError) ELSE
    LET IsVerb(token) == token.pos = "VERB"
        counts        == [k \in 1..Len(doc.sents) |-> FromInt(Count(doc.sents[k], IsVerb))]
        num_sentences == Len(doc.sents)
    IN  IF num_sentences = 0 THEN Ok(FromInt(0))
        ELSE Ok(RatDiv(SumSeq(counts), FromInt(num_sentences)))

calculate_lennp(doc) ==
    IF doc.fault = "LenNP" THEN MetricError("LenNP", UnexpectedError) ELSE
    LET NotPunct(token) == ~token.is_punct
        lengths    == [k \in 1..Len(doc.noun_chunks) |->
                          Count(doc.noun_chunks[k], NotPunct)]
        np_lengths == SelectSeq(lengths, LAMBDA np_length : np_length > 0)
    IN  IF np_lengths = <<>> THEN Ok(FromInt(0))
        ELSE Ok(RatDiv(SumSeq([k \in 1..Len(np_lengths) |-> FromInt(np_lengths[k])]),
                       FromInt(Len(np_lengths))))

\* the misspelt table of a mapper and a calculator that disagree on a name
METRIC_FUNCTIONS_misnamed ==
    <<"AvrDiff", "BperA", "CVV1", "AvrFreqRank", "ARI", "VperSent",
      "POSTypes", "LenNP">>

\* the names of metric_functions, in the order of the list
METRIC_FUNCTIONS ==
    <<"AvrDiff", "BperA", "CVV1", "AvrFreqRank", "ARI", "VperSent",
      "POStypes", "LenNP">>

\* calc_func() of the i-th entry of metric_functions
CalcFunc(i, e, st, doc, text, ari) ==
    CASE i = 1 -> calculate_avrdiff(e, st, doc)
      [] i = 2 -> calculate_bpera(e, st, doc)
      [] i = 3 -> Result(st, calculate_cvv1(doc))
      [] i = 4 -> calculate_avrfreqrank(e, st, doc)
      [] i = 5 -> Result(st, calculate_ari(text, ari))
      [] i = 6 -> Result(st, calculate_vpersent(doc))
      [] i = 7 -> Result(st, calculate_postypes(doc))
      [] i = 8 -> Result(st, calculate_lennp(doc))

\* the loop of calculate_all_metrics leaving a failed metric out of the map
RECURSIVE MetricsLoop_continuing(_, _, _, _, _, _, _)
MetricsLoop_continuing(e, st, doc, text, ari, i, metrics) ==
    IF i > Len(METRIC_FUNCTIONS)
    THEN [st |-> st, r |-> Ok(metrics), ran |-> METRIC_FUNCTIONS]
    ELSE Only({
         IF m.r.kind = "error"
         THEN MetricsLoop_continuing(e, m.st, doc, text, ari, i + 1, metrics)
         ELSE MetricsLoop_continuing(e, m.st, doc, text, ari, i + 1,
                  Append(metrics, <<METRIC_FUNCTIONS[i], m.r.val>>))
         : m \in { CalcFunc(i, e, st, doc, text, ari) } })

\* the loop of calculate_all_metrics from entry i on
RECURSIVE MetricsLoop(_, _, _, _, _, _, _)
MetricsLoop(e, st, doc, text, ari, i, metrics) ==
    IF i > Len(METRIC_FUNCTIONS)
    THEN [st |-> st, r |-> Ok(metrics), ran |-> Keys(metrics)]
    ELSE Only({
         IF m.r.kind = "error"
         THEN [st |-> m.st, r |-> m.r,
               ran |-> Append(Keys(metrics), METRIC_FUNCTIONS[i])]
         ELSE MetricsLoop(e, m.st, doc, text, ari, i + 1,
                          Append(metrics, <<METRIC_FUNCTIONS[i], m.r.val>>))
         : m \in { CalcFunc(i, e, st, doc, text, ari) } })

calculate_all_metrics(e, st, doc, text, ari) ==
    MetricsLoop(e, st, doc, text, ari, 1, <<>>)

-----------------------------------------------------------------------------
(* pycefrizer.py: PyCEFRizer.analyze *)

\* analyze annotating the text before it looks at what validate_input said
analyze_annotating_first(e, st, text, doc, ari) ==
    LET stripped_text == strip(text)
    IN  IF ~Contains(stripped_text, " ") /\ stripped_text # <<>>
        THEN { [ st    |-> l.st,
                 r     |-> IF l.r.kind = "error" THEN l.r
                           ELSE Ok(<< <<"CEFR_Level", l.r.val>> >>),
                 calls |-> << <<"get_word_cefr_level", l.r>> >> ] :
               l \in { get_word_cefr_level(e, st, stripped_text) } }
        ELSE UNION {
             IF v.kind = "error"
             THEN { [st |-> st, r |-> v,
                      calls |-> << <<"validate_input", v>>, <<"nlp", Ok(doc)>> >>] }
             ELSE UNION {
                  LET c3 == << <<"validate_input", v>>, <<"nlp", Ok(doc)>>,
                               <<"calculate_all_metrics", m.r>>,
                               <<"calc_func", m.ran>> >>
                  IN  IF m.r.kind = "error"
                      THEN { [st |-> m.st, r |-> m.r, calls |-> c3] }
                      ELSE { [ st    |-> m.st,
                               r     |-> IF t.r.kind = "error" THEN t.r
                                         ELSE Ok(<< <<"CEFR-J_Level", t.r.val[1]>> >>
                                                 \o t.r.val[2]),
                               calls |-> Append(c3, <<"process_metrics", t.r>>)
                                            \o t.calls ] :
                             t \in process_metrics_calls(m.r.val) }
                  : m \in { calculate_all_metrics(e, st, doc, text, ari) } }
             : v \in { validate_input(text) } }

\* The outcomes [st, r, calls] of analyze(text): doc is what self.nlp(text)
\* returns and ari what textstat does on the text; calls lists the methods
\* analyze invoked with what each returned.
analyze(e, st, text, doc, ari) ==
    LET stripped_text == strip(text)
    IN  IF ~Contains(stripped_text, " ") /\ stripped_text # <<>>
        THEN { [ st    |-> l.st,
                 r     |-> IF l.r.kind = "error" THEN l.r
                           ELSE Ok(<< <<"CEFR_Level", l.r.val>> >>),
                 calls |-> << <<"get_word_cefr_level", l.r>> >> ] :
               l \in { get_word_cefr_level(e, st, stripped_text) } }
        ELSE UNION {
             IF v.kind = "error"
             THEN { [st |-> st, r |-> v, calls |-> << <<"validate_input", v>> >>] }
             ELSE UNION {
                  LET c3 == << <<"validate_input", v>>, <<"nlp", Ok(doc)>>,
                               <<"calculate_all_metrics", m.r>>,
                               <<"calc_func", m.ran>> >>
                  IN  IF m.r.kind = "error"
                      THEN { [st |-> m.st, r |-> m.r, calls |-> c3] }
                      ELSE { [ st    |-> m.st,
                               r     |-> IF t.r.kind = "error" THEN t.r
                                         ELSE Ok(<< <<"CEFR-J_Level", t.r.val[1]>> >>
                                                 \o t.r.val[2]),
                               calls |-> Append(c3, <<"process_metrics", t.r>>)
                                            \o t.calls ] :
                             t \in process_metrics_calls(m.r.val) }
                  : m \in { calculate_all_metrics(e, st, doc, text, ari) } }
             : v \in { validate_input(text) } }

\* The candidates of round(v, 4), as for round(x, 2)
Round4Set(x) ==
    LET lo  == (x.n * 10000) \div x.d
        rem == x.n * 10000 - lo * x.d
    IN  IF 2 * rem < x.d THEN {Rat(lo, 10000)}
        ELSE IF 2 * rem > x.d THEN {Rat(lo + 1, 10000)}
        ELSE {Rat(lo, 10000), Rat(lo + 1, 10000)}

\* {k: round(v, 4) for k, v in raw_metrics.items()}
RECURSIVE RoundedMetrics(_)
RoundedMetrics(raw_metrics) ==
    IF raw_metrics = <<>> THEN { <<>> }
    ELSE { << <<raw_metrics[1][1], v>> >> \o rest :
             v \in Round4Set(raw_metrics[1][2]),
             rest \in RoundedMetrics(Tail(raw_metrics)) }

\* The outcomes [st, r, calls] of get_detailed_analysis(text)
get_detailed_analysis(e, st, text, doc, ari) ==
    LET stripped_text == strip(text)
    IN  IF ~Contains(stripped_text, " ") /\ stripped_text # <<>>
        THEN { [ st    |-> l.st,
                 r     |-> IF l.r.kind = "error" THEN l.r
                           ELSE Ok(<< <<"CEFR_Level", l.r.val>> >>),
                 calls |-> << <<"get_word_cefr_level", l.r>> >> ] :
               l \in { get_word_cefr_level(e, st, stripped_text) } }
        ELSE UNION {
             IF v.kind = "error"
             THEN { [st |-> st, r |-> v, calls |-> << <<"validate_input", v>> >>] }
             ELSE UNION {
                  LET c3 == << <<"validate_input", v>>, <<"nlp", Ok(doc)>>,
                               <<"calculate_all_metrics", m.r>>,
                               <<"calc_func", m.ran>> >>
                  IN  IF m.r.kind = "error"
                      THEN { [st |-> m.st, r |-> m.r, calls |-> c3] }
                      ELSE { [ st    |-> m.st,
                               r     |-> IF t.r.kind = "error" THEN t.r
                                         ELSE Ok(<< <<"CEFR-J_Level", t.r.val[1]>>,
                                                    <<"CEFR_Scores", t.r.val[2]>>,
                                                    <<"Raw_Metrics", rm>>,
                                                    <<"Text_Statistics",
                                                      << <<"word_count", v.val>>,
                                                         <<"sentence_count", Len(doc.sents)>>,
                                                         <<"token_count", Len(doc.tokens)>> >> >> >>),
                               calls |-> Append(c3, <<"process_metrics", t.r>>)
                                            \o t.calls ] :
                             t \in process_metrics_calls(m.r.val),
                             rm \in RoundedMetrics(m.r.val) }
                  : m \in { calculate_all_metrics(e, st, doc, text, ari) } }
             : v \in { validate_input(text) } }

-----------------------------------------------------------------------------
(* Inputs of the CEFRMapper operations *)

MaxRawNum == 12
MaxRawDen == 2
MaxMetricKeys == 2
MaxScores == 4
MaxScoreVal == 3
MaxDupVal == 2
MinMapScore == 50
MaxMapScore == 600

MetricNames == DOMAIN REGRESSION_COEFFICIENTS

NumMetrics == Cardinality(MetricNames)

UnknownNames == {"UnknownMetric", "cvv1"}

RawValues ==
    {Rat(n, d) : n \in -MaxRawNum..MaxRawNum, d \in 1..MaxRawDen}
        \cup {FromInt(100), FromInt(1000)}

\* the raw metric map of tests/test_cefr_mapping.py
TestMetrics ==
    << <<"AvrDiff", FromInt(2)>>, <<"BperA", Rat(3, 10)>>,
       <<"CVV1", FromInt(3)>>, <<"AvrFreqRank", FromInt(1000)>>,
       <<"ARI", FromInt(8)>>, <<"VperSent", FromInt(2)>>,
       <<"POStypes", FromInt(8)>>, <<"LenNP", FromInt(3)>> >>

InjectiveSeqs(S, n) ==
    {s \in [1..n -> S] : \A i, j \in 1..n : i # j => s[i] # s[j]}

SmallRaw == {FromInt(2), Rat(3, 10), FromInt(1)}

MetricMaps ==
    (UNION { { [i \in 1..n |-> <<ks[i], vs[i]>>] :
                   ks \in InjectiveSeqs(MetricNames \cup UnknownNames, n),
                   vs \in [1..n -> SmallRaw] } : n \in 0..MaxMetricKeys })
    \cup {TestMetrics}
    \cup { [TestMetrics EXCEPT ![i] = <<u, TestMetrics[i][2]>>] :
               i \in 1..Len(TestMetrics), u \in UnknownNames }

ScoreKey(i) == "Metric" \o ToString(i) \o "_CEFR"

ScoreDict(vs) == [i \in 1..Len(vs) |-> <<ScoreKey(i), vs[i]>>]

ScoreVals == {Rat(v, 2) : v \in -1..MaxScoreVal}

DupVals == {FromInt(v) : v \in 1..MaxDupVal}

OneToEight == [i \in 1..NumMetrics |-> FromInt(i)]

ScoreLists ==
    (UNION {[1..n -> ScoreVals] : n \in 0..MaxScores})
    \cup [1..NumMetrics -> DupVals]
    \cup { [i \in 1..NumMetrics |-> FromInt(((i + k) % NumMetrics) + 1)] :
               k \in 0..(NumMetrics - 1) }
    \cup { [i \in 1..NumMetrics |-> FromInt(NumMetrics - ((i + k) % NumMetrics))] :
               k \in 0..(NumMetrics - 1) }

MapScores == {Rat(n, 100) : n \in -MinMapScore..MaxMapScore} \cup {FromInt(10)}

-----------------------------------------------------------------------------------------------------------------------------------------------------
(* The CEFRMapper operations as actions: a call is drawn in the initial    *)
(* state and the action of its operation carries it out.                   *)

MapperCalls ==
    ({"apply_regression"} \X (RawValues \X (MetricNames \cup UnknownNames)))
    \cup ({"calculate_cefr_scores"} \X MetricMaps)
    \cup ({"calculate_final_level"} \X {ScoreDict(vs) : vs \in ScoreLists})
    \cup ({"map_to_cefr_j"} \X MapScores)

InitMapper ==
    /\ \E c \in MapperCalls : op = c[1] /\ arg = c[2]
    /\ res = Pending
    /\ calls = <<>>
    /\ env = FilesOk
    /\ store = FreshStore

ApplyRegression ==
    /\ op = "apply_regression" /\ res = Pending
    /\ res' = apply_regression(arg[1], arg[2])
    /\ UNCHANGED <<op, arg, calls, env, store>>

CalculateCefrScores ==
    /\ op = "calculate_cefr_scores" /\ res = Pending
    /\ res' \in calculate_cefr_scores(arg)
    /\ UNCHANGED <<op, arg, calls, env, store>>

CalculateFinalLevel ==
    /\ op = "calculate_final_level" /\ res = Pending
    /\ res' = Ok(calculate_final_level(arg))
    /\ UNCHANGED <<op, arg, calls, env, store>>

MapToCefrJ ==
    /\ op = "map_to_cefr_j" /\ res = Pending
    /\ res' = Ok(map_to_cefr_j(arg))
    /\ UNCHANGED <<op, arg, calls, env, store>>

NextMapper ==
    \/ ApplyRegression
    \/ CalculateCefrScores
    \/ CalculateFinalLevel
    \/ MapToCefrJ

SpecMapper == InitMapper /\ [][NextMapper]_vars

-----------------------------------------------------------------------------
(* Inputs of the PyCEFRizer operations *)

MaxTextLen == 3
MaxDocTokens == 2
Slack == 1

TextAlphabet == {"a", "A", "b", " ", "\t", "\n"}

ShortTexts == UNION {[1..n -> TextAlphabet] : n \in 0..MaxTextLen}

\* unit repeated k times: k words when unit is a word and its separator
Repeat(unit, k) == [i \in 1..(k * Len(unit)) |-> unit[((i - 1) % Len(unit)) + 1]]

WordUnits == { <<"a", " ">>, <<"a", "\n">>, <<"A", "b", "\t", " ">>, <<"b", "\t">> }

\* texts of 10 words, with and without whitespace at the ends
MediumTexts ==
    { Repeat(u, MIN_WORDS) : u \in WordUnits }
    \cup { SubSeq(Repeat(<<"a", " ">>, MIN_WORDS), 1, 2 * MIN_WORDS - 1),
           <<"\n", " ">> \o Repeat(<<"b", "a", " ">>, MIN_WORDS) }

\* texts whose word count is around the two limits
BoundaryTexts ==
    { Repeat(u, k) : u \in WordUnits,
                     k \in {MIN_WORDS + d : d \in -Slack..Slack}
                           \cup {MAX_WORDS + d : d \in -Slack..Slack} }
    \cup { SubSeq(Repeat(<<"a", " ">>, k), 1, 2 * k - 1) :
               k \in {MIN_WORDS + d : d \in -Slack..Slack}
                     \cup {MAX_WORDS + d : d \in -Slack..Slack} }

HugeTexts == { Repeat(<<"a", " ">>, MAX_WORDS), Repeat(<<"a", "\n">>, MAX_WORDS) }

Token(text, lemma, pos, is_punct, is_stop) ==
    [text |-> text, lemma |-> lemma, pos |-> pos, is_punct |-> is_punct,
     is_stop |-> is_stop, is_space |-> FALSE]

TokenKinds ==
    { Token(<<"A">>, <<"a">>, "NOUN", FALSE, FALSE),
      Token(<<"a", "b">>, <<"a", "b">>, "VERB", FALSE, FALSE),
      Token(<<"b">>, <<"b", "e">>, "VERB", FALSE, TRUE),
      Token(<<"b", "b">>, <<"b", "a">>, "ADJ", FALSE, FALSE),
      Token(<<"b", "b">>, <<"b", "b">>, "ADV", FALSE, FALSE),
      Token(<<".">>, <<".">>, "PUNCT", TRUE, FALSE) }

NounChunks(ts) ==
    LET nouns == SelectSeq(ts, LAMBDA t : t.pos = "NOUN")
    IN  [i \in 1..Len(nouns) |-> <<nouns[i]>>]

Docs ==
    UNION { { [tokens |-> ts, sents |-> IF ts = <<>> THEN <<>> ELSE <<ts>>,
               noun_chunks |-> NounChunks(ts), fault |-> "none"],
              [tokens |-> ts, sents |-> [i \in 1..Len(ts) |-> <<ts[i]>>],
               noun_chunks |-> NounChunks(ts), fault |-> "none"] } :
            ts \in UNION {[1..n -> TokenKinds] : n \in 0..MaxDocTokens} }

EmptyDoc == [tokens |-> <<>>, sents |-> <<>>, noun_chunks |-> <<>>, fault |-> "none"]

\* the seven extractors with a try-body over the document
DocExtractors ==
    {"AvrDiff", "BperA", "CVV1", "AvrFreqRank", "VperSent", "POStypes", "LenNP"}

\* documents on which one extractor meets an unexpected error
FaultyDocs ==
    { [d EXCEPT !.fault = f] : d \in {d2 \in Docs : Len(d2.tokens) = 1},
                               f \in DocExtractors }

AriOutcomes == {Ok(FromInt(8)), Ok(FromInt(1)), Raise("ZeroDivisionError", "")}

Envs == [word_lookup_json : FileStates, coca_frequencies_json : FileStates]

\* tokens as the tests of get_unused_words mock them: text, lemma and the
\* two flags are set independently
UnusedTokenKinds ==
    { Token(<<"A">>, <<"a">>, "NOUN", FALSE, FALSE),
      Token(<<"b", "b">>, <<"b">>, "NOUN", FALSE, FALSE),
      Token(<<"a">>, <<"a">>, "PUNCT", TRUE, FALSE),
      [Token(<<"a", "b">>, <<"a", "b">>, "SPACE", FALSE, FALSE) EXCEPT !.is_space = TRUE],
      Token(<<"a", "b">>, <<"a", "b">>, "VERB", FALSE, FALSE),
      Token(<<"b", "a">>, <<"b", "a">>, "NOUN", FALSE, FALSE) }

UnusedDocs ==
    { [EmptyDoc EXCEPT !.tokens = ts] :
        ts \in UNION {[1..n -> UnusedTokenKinds] : n \in 0..MaxDocTokens} }

UnusedLevels == DOMAIN CEFR_LEVELS \cup {"X1", "a1", ""}

UnusedArgs == [level : UnusedLevels, doc : UnusedDocs]

\* the store after looking up the difficulty and the rank of each word
RECURSIVE WarmUp(_, _, _)
WarmUp(e, st, words) ==
    IF words = <<>> THEN st
    ELSE LET s1 == get_word_difficulty(e, st, Head(words)).st
             s2 == get_word_frequency_rank(e, s1, Head(words)).st
         IN  WarmUp(e, s2, Tail(words))

Vocabulary == << <<"a">>, <<"a", "b">>, <<"b", "b">>, <<"b", "a">> >>

\* the stores an analyzer can be in over the files e
StoresOf(e) ==
    { FreshStore, WarmUp(e, FreshStore, <<Vocabulary[1]>>),
      WarmUp(e, FreshStore, Vocabulary) }

PreStates == UNION { {<<e, st>> : st \in StoresOf(e)} : e \in Envs }

ValidateArgs == { [text |-> t] : t \in ShortTexts \cup MediumTexts \cup BoundaryTexts }

\* analyze never reaches the nlp on a text of fewer than 10 words
AnalyzeShortArgs ==
    { [text |-> t, doc |-> EmptyDoc, ari |-> Ok(FromInt(0))] : t \in ShortTexts }

AnalyzeArgs == [text : MediumTexts, doc : Docs, ari : AriOutcomes]

AnalyzeFaultArgs ==
    [text : {Repeat(<<"a", " ">>, MIN_WORDS)}, doc : FaultyDocs, ari : AriOutcomes]

WordArgs == { [word |-> t] : t \in ShortTexts }

CheckWords ==
    { <<"a">>, <<"A">>, <<"a", "b">>, <<"b", "a">>, <<"b">>, <<>>, <<"a", " ", "a">> }

TargetLevels ==
    {"A1", "A2", "B1", "B2", "C1", "C2", "a1", "a2", "b1", "b2", "c1", "c2",
     "X1", "x1", ""}

CheckArgs ==
    [word : CheckWords, target_level : TargetLevels, spacy_model : {"ok", "missing"}]

InitArgs == [spacy_model : {"ok", "missing"}]

AnalyzeHugeArgs ==
    { [text |-> t, doc |-> d, ari |-> Ok(FromInt(8))] :
          t \in HugeTexts, d \in {d2 \in Docs : Len(d2.tokens) = 1} }

-----------------------------------------------------------------------------
(* The PyCEFRizer operations as actions: the call, the files and the       *)
(* store it meets are drawn in the initial state.                          *)

Init ==
    /\ \/ /\ op = "validate_input" /\ arg \in ValidateArgs
          /\ env = FilesOk /\ store = FreshStore
       \/ /\ op = "analyze"
          /\ arg \in AnalyzeShortArgs \cup AnalyzeArgs \cup AnalyzeFaultArgs
          /\ \E p \in PreStates : env = p[1] /\ store = p[2]
       \/ /\ op = "get_detailed_analysis" /\ arg \in AnalyzeShortArgs \cup AnalyzeArgs
          /\ \E p \in PreStates : env = p[1] /\ store = p[2]
       \/ /\ op = "analyze" /\ arg \in AnalyzeHugeArgs
          /\ env = FilesOk /\ store = FreshStore
       \/ /\ op = "get_word_cefr_level" /\ arg \in WordArgs
          /\ \E p \in PreStates : env = p[1] /\ store = p[2]
       \/ /\ op = "get_word_frequency_rank" /\ arg \in WordArgs
          /\ \E p \in PreStates : env = p[1] /\ store = p[2]
       \/ /\ op = "get_unused_words" /\ arg \in UnusedArgs
          /\ \E p \in PreStates : env = p[1] /\ store = p[2]
       \/ /\ op = "check_word_level" /\ arg \in CheckArgs
          /\ \/ \E p \in PreStates : env = p[1] /\ store = p[2]
             \/ env \in Envs /\ store = NoObject
       \/ /\ op = "__init__" /\ arg \in InitArgs
          /\ env \in Envs /\ store = NoObject
    /\ res = Pending
    /\ calls = <<>>

ValidateInput ==
    /\ op = "validate_input" /\ res = Pending
    /\ res' = validate_input(arg.text)
    /\ UNCHANGED <<op, arg, calls, env, store>>

Analyze ==
    /\ op = "analyze" /\ res = Pending
    /\ \E out \in analyze(env, store, arg.text, arg.doc, arg.ari) :
           /\ res' = out.r
           /\ store' = out.st
           /\ calls' = out.calls
    /\ UNCHANGED <<op, arg, env>>

GetDetailedAnalysis ==
    /\ op = "get_detailed_analysis" /\ res = Pending
    /\ \E out \in get_detailed_analysis(env, store, arg.text, arg.doc, arg.ari) :
           /\ res' = out.r
           /\ store' = out.st
           /\ calls' = out.calls
    /\ UNCHANGED <<op, arg, env>>

GetWordCefrLevel ==
    /\ op = "get_word_cefr_level" /\ res = Pending
    /\ \E out \in {get_word_cefr_level(env, store, arg.word)} :
           /\ res' = out.r
           /\ store' = out.st
    /\ UNCHANGED <<op, arg, calls, env>>

GetWordFrequencyRank ==
    /\ op = "get_word_frequency_rank" /\ res = Pending
    /\ \E out \in {get_word_frequency_rank(env, store, arg.word)} :
           /\ res' = out.r
           /\ store' = out.st
    /\ UNCHANGED <<op, arg, calls, env>>

GetUnusedWords ==
    /\ op = "get_unused_words" /\ res = Pending
    /\ \E out \in {get_unused_words(env, store, arg.level, arg.doc)} :
           /\ res' = out.r
           /\ store' = out.st
    /\ UNCHANGED <<op, arg, calls, env>>

CheckWordLevel ==
    /\ op = "check_word_level" /\ res = Pending
    /\ \E out \in {check_word_level(env, store, arg.spacy_model, arg.word,
                                     arg.target_level)} :
           /\ res' = out.r
           /\ store' = out.st
    /\ UNCHANGED <<op, arg, calls, env>>

Construct ==
    /\ op = "__init__" /\ res = Pending
    /\ \E out \in {PyCEFRizer_init(env, arg.spacy_model)} :
           /\ res' = out.r
           /\ store' = out.st
    /\ UNCHANGED <<op, arg, calls, env>>

Next ==
    \/ ValidateInput
    \/ Analyze
    \/ GetDetailedAnalysis
    \/ GetWordCefrLevel
    \/ GetWordFrequencyRank
    \/ GetUnusedWords
    \/ CheckWordLevel
    \/ Construct

Spec == Init /\ [][Next]_vars

-----------------------------------------------------------------------------
(* Properties of the CEFRMapper operations (checked under SpecMapper) *)

Done == res # Pending

RatNeg(x) == [n |-> -x.n, d |-> x.d]

RecognisedMetrics ==
    {"CVV1", "BperA", "POStypes", "ARI", "AvrDiff", "AvrFreqRank",
     "VperSent", "LenNP"}

MinOf(vs) == CHOOSE x \in {vs[i] : i \in 1..Len(vs)} :
                 \A i \in 1..Len(vs) : FloatLessEq(x, vs[i])

MaxOf(vs) == CHOOSE x \in {vs[i] : i \in 1..Len(vs)} :
                 \A i \in 1..Len(vs) : FloatLessEq(vs[i], x)

\* C2: for more than 2 scores calculate_final_level removes exactly one
\* occurrence of the minimum and one of the maximum, duplicated or not,
\* and returns the mean of the rest: result * (n - 2) = sum - min - max;
\* with 8 scores the mean is over 6 values.
C2_TrimOneMinOneMax ==
    (op = "calculate_final_level" /\ Done /\ Len(arg) > 2) =>
        LET vs == Values(arg)
        IN  /\ res.kind = "ok"
            /\ RatMul(res.val, FromInt(Len(vs) - 2)) =
                   RatAdd(SumSeq(vs), RatAdd(RatNeg(MinOf(vs)), RatNeg(MaxOf(vs))))
            /\ (Len(vs) = 8 =>
                   RatMul(res.val, FromInt(6)) =
                       RatAdd(SumSeq(vs), RatAdd(RatNeg(MinOf(vs)), RatNeg(MaxOf(vs)))))

\* 8 scores whose minimum and maximum both occur more than once
C2_DuplicatedExtremesOfEight ==
    /\ op = "calculate_final_level" /\ Done
    /\ Len(arg) = 8
    /\ LET vs == Values(arg)
       IN  /\ MinOf(vs) # MaxOf(vs)
           /\ Cardinality({i \in 1..8 : vs[i] = MinOf(vs)}) > 1
           /\ Cardinality({i \in 1..8 : vs[i] = MaxOf(vs)}) > 1

\* the label a score gets from an ascending (threshold, label) table
LabelOrder ==
    <<"preA1", "A1.1", "A1.2", "A1.3", "A2.1", "A2.2",
      "B1.1", "B1.2", "B2.1", "B2.2", "C1", "C2">>

LabelRank(l) == CHOOSE i \in 1..Len(LabelOrder) : LabelOrder[i] = l

\* C3: map_to_cefr_j is total and returns the label of the first entry of
\* the 12-entry table whose threshold is strictly above the score; a score
\* equal to a threshold gets the next label (0.5 -> A1.1, 1.5 -> A2.1,
\* 4.5 -> C1) and every score >= 5.5 gets C2.
C3_FirstStrictlyGreaterBoundary ==
    (op = "map_to_cefr_j" /\ Done) =>
        /\ res.kind = "ok"
        /\ Len(CEFR_J_BOUNDARIES) = 12
        /\ \E i \in 1..Len(CEFR_J_BOUNDARIES) :
               /\ FloatLess(arg, CEFR_J_BOUNDARIES[i][1])
               /\ \A j \in 1..(i - 1) : ~FloatLess(arg, CEFR_J_BOUNDARIES[j][1])
               /\ res.val = CEFR_J_BOUNDARIES[i][2]
        /\ (arg = Rat(5, 10) => res.val = "A1.1")
        /\ (arg = Rat(15, 10) => res.val = "A2.1")
        /\ (arg = Rat(45, 10) => res.val = "C1")
        /\ (FloatLessEq(Rat(55, 10), arg) => res.val = "C2")

C3_ScoreOnThreshold ==
    op = "map_to_cefr_j" /\ Done /\ arg = Rat(45, 10) /\ res = Ok("C1")

\* C7: apply_regression raises ValueError for every name outside the 8
\* recognised ones, and calculate_cefr_scores on a map holding such a name
\* at any position raises it too and returns no score map.
C7_UnknownMetricPropagates ==
    /\ (op = "apply_regression" /\ Done /\ arg[2] \notin RecognisedMetrics)
           => (res.kind = "error" /\ res.err = "ValueError")
    /\ (op = "calculate_cefr_scores" /\ Done
            /\ \E i \in 1..Len(arg) : arg[i][1] \notin RecognisedMetrics)
           => (res.kind = "error" /\ res.err = "ValueError")

\* the unknown name comes last, after 7 recognised metrics
C7_UnknownNameLast ==
    /\ op = "calculate_cefr_scores" /\ Done
    /\ Len(arg) = 8
    /\ \A i \in 1..7 : arg[i][1] \in RecognisedMetrics
    /\ arg[8][1] \notin RecognisedMetrics
    /\ res.kind = "error"

Swap(dict, i, j) ==
    [dict EXCEPT ![i] = <<dict[i][1], dict[j][2]>>,
                 ![j] = <<dict[j][1], dict[i][2]>>]

\* C8: calculate_final_level is permutation-invariant: exchanging the
\* values of any two keys (transpositions generate every reordering) gives
\* the same result; the scores 1..8 in any order give 4.5.
C8_PermutationInvariant ==
    (op = "calculate_final_level" /\ Done) =>
        /\ \A i, j \in 1..Len(arg) :
               calculate_final_level(Swap(arg, i, j)) = res.val
        /\ ({arg[i][2] : i \in 1..Len(arg)} = {FromInt(k) : k \in 1..8}
                /\ Len(arg) = 8)
               => res.val = Rat(9, 2)

C8_EightScoresOutOfOrder ==
    /\ op = "calculate_final_level" /\ Done
    /\ Len(arg) = 8
    /\ {arg[i][2] : i \in 1..Len(arg)} = {FromInt(k) : k \in 1..8}
    /\ arg[1][2] = FromInt(8) /\ arg[8][2] = FromInt(1)
    /\ res = Ok(Rat(9, 2))

\* C9: with 2 or fewer scores calculate_final_level does not trim: the
\* plain mean for 1 or 2 scores, 0.0 for none and never a failure;
\* trimming starts at 3 scores, where the result is the middle score.
C9_NoTrimmingUpToTwo ==
    (op = "calculate_final_level" /\ Done) =>
        LET vs == Values(arg)
        IN  /\ res.kind = "ok"
            /\ (Len(vs) = 0 => res.val = FromInt(0))
            /\ (Len(vs) \in {1, 2} =>
                   RatMul(res.val, FromInt(Len(vs))) = SumSeq(vs))
            /\ (Len(vs) = 3 =>
                   res.val = RatAdd(SumSeq(vs),
                                 RatAdd(RatNeg(MinOf(vs)), RatNeg(MaxOf(vs)))))

C9_TwoDifferentScores ==
    /\ op = "calculate_final_level" /\ Done
    /\ Len(arg) = 2 /\ arg[1][2] # arg[2][2]
    /\ RatAdd(res.val, res.val) = RatAdd(arg[1][2], arg[2][2])

\* C10: the score-to-label mapping is monotone in the order preA1 < A1.1 <
\* ... < C1 < C2 (a higher score never gets a lower label) and has no gap:
\* each of the 12 labels is the image of some score.
C10_MonotoneNoGaps ==
    (op = "map_to_cefr_j" /\ Done) =>
        /\ \A s2 \in MapScores :
               FloatLessEq(arg, s2) =>
                   LabelRank(res.val) <= LabelRank(map_to_cefr_j(s2))
        /\ \A i \in 1..Len(LabelOrder) :
               \E s \in MapScores : map_to_cefr_j(s) = LabelOrder[i]

C10_InteriorLabel ==
    op = "map_to_cefr_j" /\ Done /\ arg = Rat(84, 100) /\ res = Ok("A1.2")

-----------------------------------------------------------------------------
(* Properties of the PyCEFRizer operations (checked under Spec) *)

\* number of maximal runs of non-whitespace characters of text
WordRuns(text) ==
    Cardinality({ i \in 1..Len(text) :
                    /\ text[i] \notin {" ", "\t", "\n"}
                    /\ (i = 1 \/ text[i - 1] \in {" ", "\t", "\n"}) })

\* C4: validate_input returns the whitespace-split word count exactly when
\* that count is between 10 and 10000, both ends included, and raises
\* TextLengthError for empty or whitespace-only text, for 9 words or
\* fewer and for 10001 words or more.
C4_WordCountBoundsInclusive ==
    (op = "validate_input" /\ Done) =>
        LET n == WordRuns(arg.text)
        IN  /\ (res.kind = "ok") <=> (10 <= n /\ n <= 10000)
            /\ (res.kind = "ok") => (res.val = n)
            /\ (res.kind = "error") => (res.err = "TextLengthError")
            /\ (n = 0 \/ n <= 9 \/ n >= 10001) =>
                   (res.kind = "error" /\ res.err = "TextLengthError")

C4_UpperLimitAccepted ==
    /\ op = "validate_input" /\ Done
    /\ WordRuns(arg.text) = 10000
    /\ res = Ok(10000)

BypassTaken ==
    /\ Len(calls) = 1 /\ calls[1][1] = "get_word_cefr_level"
    /\ (res.kind = "ok") =>
           (Len(res.val) = 1 /\ res.val[1][1] = "CEFR_Level")

FullPipelineEntered ==
    /\ Len(calls) >= 1 /\ calls[1][1] = "validate_input"

NoInternalWhitespace(text) ==
    \A i \in 1..Len(text) : text[i] \notin {" ", "\t", "\n"}

\* C5: analyze takes the single-word bypass (only the word lookup is
\* called; no validation, no NLP, no metrics) exactly when the stripped
\* text is non-empty and holds no whitespace of any kind; a stripped text
\* with an internal space, tab or newline goes through validate_input.
C5_BypassIffNoInternalWhitespace ==
    (op = "analyze" /\ Done) =>
        LET stripped_text == strip(arg.text)
        IN  /\ BypassTaken <=>
                   (stripped_text # <<>> /\ NoInternalWhitespace(stripped_text))
            /\ ~NoInternalWhitespace(stripped_text) => FullPipelineEntered

MultiWordAnalysis == op = "analyze" /\ Done /\ FullPipelineEntered

CallResult(name) ==
    LET i == CHOOSE j \in 1..Len(calls) : calls[j][1] = name
    IN  calls[i][2]

Called(name) == \E j \in 1..Len(calls) : calls[j][1] = name

CaseVariants(word) ==
    {k \in DOMAIN WORD_LOOKUP_JSON : lower(k) = lower(word)}

\* C11: with a loadable word table, get_word_cefr_level never raises; a
\* single word that is a stored key up to letter case (in the query or
\* in the key) yields that entry's level; a word not in the table, the
\* empty input and a multi-word input yield the empty string.
C11_CaseInsensitiveRoundTrip ==
    (op = "get_word_cefr_level" /\ Done /\ env.word_lookup_json = "ok") =>
        LET word   == strip(arg.word)
            single == word # <<>> /\ NoInternalWhitespace(word)
        IN  /\ res.kind = "ok"
            /\ (single /\ CaseVariants(word) # {}) =>
                   \E k \in CaseVariants(word) : res.val = WORD_LOOKUP_JSON[k].CEFR
            /\ (~single \/ CaseVariants(word) = {}) => res.val = ""

Unloadable(e) == e.word_lookup_json # "ok" \/ e.coca_frequencies_json # "ok"

SingleWord(text) == strip(text) # <<>> /\ ~Contains(strip(text), " ")

DictGet(dict, key) ==
    dict[CHOOSE i \in 1..Len(dict) : dict[i][1] = key][2]

MetricsComputed == MultiWordAnalysis /\ Called("calculate_all_metrics")

InnerMessages ==
    { UnexpectedError.msg,
      "Word lookup file not found", "Invalid JSON in word lookup file",
      "COCA frequencies file not found", "Invalid JSON in COCA frequencies file" }

\* C14: an error inside one of the seven non-ARI extractors makes
\* calculate_all_metrics and analyze fail with MetricCalculationError,
\* the message naming the failing metric; no metric map, score map or
\* level is returned (process_metrics is never called), and the
\* extractors listed after the failing one are not run.
C14_ExtractorErrorAbortsAnalysis ==
    MetricsComputed =>
        LET m   == CallResult("calculate_all_metrics")
            ran == CallResult("calc_func")
        IN  /\ (arg.doc.fault \in DocExtractors) => m.kind = "error"
            /\ (arg.doc.fault \in DocExtractors /\ env = FilesOk) =>
                   ran[Len(ran)] = arg.doc.fault
            /\ (m.kind = "error") =>
                   /\ m.err = "MetricCalculationError"
                   /\ res = m
                   /\ ~Called("process_metrics")
                   /\ Len(ran) <= Len(METRIC_FUNCTIONS)
                   /\ ran = SubSeq(METRIC_FUNCTIONS, 1, Len(ran))
                   /\ ran[Len(ran)] \in DocExtractors
                   /\ m.msg \in { "Failed to calculate " \o ran[Len(ran)] \o ": " \o i :
                                     i \in InnerMessages }

C14_ThirdExtractorFailed ==
    /\ MetricsComputed
    /\ arg.doc.fault = "CVV1" /\ env = FilesOk
    /\ res.kind = "error" /\ res.err = "MetricCalculationError"
    /\ CallResult("calc_func") = <<"AvrDiff", "BperA", "CVV1">>
    /\ ~store.coca_frequencies.loaded

\* the level the word table gives a token: by its text, else by its lemma
TokenLevel(token) ==
    IF lower(token.text) \in DOMAIN WORD_LOOKUP_JSON
    THEN WORD_LOOKUP_JSON[lower(token.text)].CEFR
    ELSE IF lower(token.lemma) \in DOMAIN WORD_LOOKUP_JSON
         THEN WORD_LOOKUP_JSON[lower(token.lemma)].CEFR
         ELSE "unknown"

IsContentWord(token) ==
    /\ ~token.is_punct /\ ~token.is_stop
    /\ token.pos \in {"NOUN", "VERB", "ADJ", "ADV"}

TokensOf(doc) == {doc.tokens[i] : i \in 1..Len(doc.tokens)}

Labels == {CEFR_J_BOUNDARIES[i][2] : i \in 1..Len(CEFR_J_BOUNDARIES)} \cup {"C2"}

\* C15: a degenerate document does not abort the analysis.  With no
\* tokens (hence no sentences and no noun chunks) the seven document
\* extractors all return 0, whatever the data files; with the files
\* loadable, no verb outside the be-forms gives CVV1 = 0, no A-level
\* content word gives BperA = 0, no matched content word gives
\* AvrDiff = 0, no sentence gives VperSent = POStypes = 0 and no noun
\* chunk gives LenNP = 0; in each case the raw metric map has all 8
\* metrics and analyze returns a level.
C15_DegenerateDocumentAnalysed ==
    (MetricsComputed /\ arg.doc.fault = "none") =>
        LET m    == CallResult("calculate_all_metrics")
            doc  == arg.doc
            Zero(name) == DictGet(m.val, name) = FromInt(0)
        IN  /\ (doc.tokens = <<>> \/ env = FilesOk) =>
                   /\ m.kind = "ok"
                   /\ KeySet(m.val) = RecognisedMetrics /\ Len(m.val) = 8
                   /\ res.kind = "ok"
                   /\ res.val[1][1] = "CEFR-J_Level" /\ res.val[1][2] \in Labels
            /\ (doc.tokens = <<>>) => \A name \in DocExtractors : Zero(name)
            /\ (m.kind = "ok") =>
                   /\ (\A t \in TokensOf(doc) :
                           ~(t.pos = "VERB" /\ lower(t.lemma) \notin BE_VERBS))
                          => Zero("CVV1")
                   /\ (\A t \in TokensOf(doc) :
                           ~(IsContentWord(t) /\ TokenLevel(t) \in {"A1", "A2"}))
                          => Zero("BperA")
                   /\ (\A t \in TokensOf(doc) :
                           ~(IsContentWord(t) /\ TokenLevel(t) # "unknown"))
                          => Zero("AvrDiff")
                   /\ (doc.sents = <<>>) => (Zero("VperSent") /\ Zero("POStypes"))
                   /\ (doc.noun_chunks = <<>>) => Zero("LenNP")

C15_EmptyDocumentWithoutFiles ==
    /\ MetricsComputed
    /\ arg.doc = EmptyDoc
    /\ env.word_lookup_json = "missing" /\ env.coca_frequencies_json = "missing"
    /\ res.kind = "ok" /\ res.val[1][2] \in Labels
    /\ \A name \in DocExtractors :
           DictGet(CallResult("calculate_all_metrics").val, name) = FromInt(0)

-----------------------------------------------------------------------------
(* The store over time: lookups, clear_cache and table replacement.
   Here op, arg and res are the last call made on the store, its argument
   and what it returned; calls lists the table replacements made since the
   caches were last cleared. *)

StoreWords == { <<"a">>, <<"A">>, <<"b">> }

\* a word table and a frequency table other than the ones in the files
WORD_LOOKUP_RELOADED ==
    (<<"a">> :> [base_form |-> <<"a">>, pos |-> "noun", CEFR |-> "B2"]) @@
    (<<"b">> :> [base_form |-> <<"b">>, pos |-> "noun", CEFR |-> "A1"])

COCA_FREQUENCIES_RELOADED ==
    (<<"a">> :> 7) @@ (<<"b">> :> 40)

MaxReloads == 1

StoreLookups == {"get_word_level", "get_word_difficulty", "get_word_frequency_rank"}

Lookup(name, e, st, word) ==
    CASE name = "get_word_level"      -> get_word_level(e, st, word)
      [] name = "get_word_difficulty" -> get_word_difficulty(e, st, word)
      [] OTHER                        -> get_word_frequency_rank(e, st, word)

InitStore ==
    /\ op = "__init__" /\ arg = [word |-> <<>>]
    /\ env \in Envs /\ store = FreshStore
    /\ res = Ok("ResourceManager") /\ calls = <<>>

StoreLookup ==
    \E name \in StoreLookups, word \in StoreWords :
        \E out \in {Lookup(name, env, store, word)} :
            /\ op' = name /\ arg' = [word |-> word]
            /\ res' = out.r /\ store' = out.st
            /\ UNCHANGED <<calls, env>>

ClearCache ==
    /\ op' = "clear_cache" /\ arg' = [word |-> <<>>]
    /\ store' = clear_cache(store)
    /\ res' = Ok("None") /\ calls' = <<>>
    /\ UNCHANGED env

\* the word table is replaced under the store (the tests patch the
\* word_lookup property with another dictionary)
ReloadWordLookup ==
    /\ Len(calls) < MaxReloads
    /\ op' = "reload" /\ arg' = [word |-> <<>>]
    /\ store' = [store EXCEPT !.word_lookup = Loaded(WORD_LOOKUP_RELOADED)]
    /\ res' = Ok("None") /\ calls' = Append(calls, "word_lookup")
    /\ UNCHANGED env

ReloadCocaFrequencies ==
    /\ Len(calls) < MaxReloads
    /\ op' = "reload" /\ arg' = [word |-> <<>>]
    /\ store' = [store EXCEPT !.coca_frequencies = Loaded(COCA_FREQUENCIES_RELOADED)]
    /\ res' = Ok("None") /\ calls' = Append(calls, "coca_frequencies")
    /\ UNCHANGED env

NextStore == StoreLookup \/ ClearCache \/ ReloadWordLookup \/ ReloadCocaFrequencies

SpecStore == InitStore /\ [][NextStore]_vars

\* the lookup as its body computes it against the store's current tables,
\* with nothing memoized
Unmemoized(name, word) == Lookup(name, env, clear_cache(store), word).r

\* C16: whatever lookups and clear_cache calls were made, as long as no
\* table was replaced since the caches were last cleared, the lookup just
\* made returned what the unmemoized lookup returns on the current tables
\* and so would every memoized entry; and right after clear_cache all three
\* caches are empty, so that the lookups made after a replacement followed
\* by clear_cache reflect the new table.
C16_MemoizedEqualsUnmemoized ==
    /\ (op = "clear_cache") =>
           /\ store.get_word_level = <<>>
           /\ store.get_word_difficulty = <<>>
           /\ store.get_word_frequency_rank = <<>>
    /\ (calls = <<>>) =>
           /\ (op \in StoreLookups) => res = Unmemoized(op, arg.word)
           /\ \A name \in StoreLookups :
                  \A word \in DOMAIN store[name] :
                      Ok(store[name][word]) = Unmemoized(name, word)

C16_LookupAfterReloadAndClear ==
    /\ op = "get_word_difficulty" /\ arg.word = <<"a">>
    /\ store.word_lookup = Loaded(WORD_LOOKUP_RELOADED)
    /\ calls = <<>>
    /\ res = Ok(FromInt(CEFR_LEVELS["B2"]))

\* the keys of the frequency file that are the word up to letter case
RankVariants(word) ==
    {k \in DOMAIN COCA_FREQUENCIES_JSON : lower(k) = lower(word)}

\* C17: with a loadable frequency file, get_word_frequency_rank returns
\* the rank stored under the word, whatever the letter case of the query
\* and of the stored key, and the default 10000 for a word that is not
\* stored; it does not raise for an unknown word (the only error is the
\* load error of an unloadable file).
C17_FrequencyRankOrDefault ==
    (op = "get_word_frequency_rank" /\ Done) =>
        /\ (env.coca_frequencies_json = "ok") =>
               /\ res.kind = "ok"
               /\ (RankVariants(arg.word) # {}) =>
                      \E k \in RankVariants(arg.word) :
                          res.val = COCA_FREQUENCIES_JSON[k]
               /\ (RankVariants(arg.word) = {}) => res.val = 10000
        /\ (res.kind = "error") =>
               /\ res.err = "ResourceLoadError"
               /\ env.coca_frequencies_json # "ok"

C17_MixedCaseRankFound ==
    /\ op = "get_word_frequency_rank" /\ Done
    /\ arg.word = <<"a", "b">>
    /\ <<"A", "b">> \in RankVariants(arg.word)
    /\ store.get_word_frequency_rank = <<>> @@ (arg.word :> 300)
    /\ res = Ok(300)

\* the entries of the word table at the level whose base form is neither
\* the lower-cased text nor the lemma of a token that counts
UnusedEntries(level, doc) ==
    {k \in DOMAIN WORD_LOOKUP_JSON :
        /\ WORD_LOOKUP_JSON[k].CEFR = level
        /\ \A i \in 1..Len(doc.tokens) :
               (~doc.tokens[i].is_punct /\ ~doc.tokens[i].is_space) =>
                   /\ WORD_LOOKUP_JSON[k].base_form # lower(doc.tokens[i].text)
                   /\ WORD_LOOKUP_JSON[k].base_form # doc.tokens[i].lemma}

\* C18: for one of the six levels and a loadable word table,
\* get_unused_words returns exactly the mapping word -> pos of the entries
\* at that level whose base form no counted token uses by text or by
\* lemma: nothing of another level, nothing used, and the empty mapping
\* when every entry of the level is used.
C18_UnusedWordsExactly ==
    (op = "get_unused_words" /\ Done /\ arg.level \in DOMAIN CEFR_LEVELS
        /\ env.word_lookup_json = "ok") =>
        /\ res.kind = "ok"
        /\ DOMAIN res.val =
               {WORD_LOOKUP_JSON[k].base_form : k \in UnusedEntries(arg.level, arg.doc)}
        /\ \A k \in UnusedEntries(arg.level, arg.doc) :
               res.val[WORD_LOOKUP_JSON[k].base_form] = WORD_LOOKUP_JSON[k].pos
        /\ (UnusedEntries(arg.level, arg.doc) = {}) => res.val = <<>>

C18_UsedByLemmaOnly ==
    /\ op = "get_unused_words" /\ Done /\ arg.level = "A2"
    /\ \E i \in 1..Len(arg.doc.tokens) :
           /\ arg.doc.tokens[i].lemma = <<"b">>
           /\ arg.doc.tokens[i].text # <<"b">>
    /\ res = Ok(<<>>)

\* C19: for a level that is not one of A1, A2, B1, B2, C1, C2,
\* get_unused_words raises ValueError with the message "Invalid CEFR
\* level: <level>" followed by "Must be one of" and the six levels, and
\* returns no mapping, whatever the files and the document.
C19_InvalidLevelRejected ==
    (op = "get_unused_words" /\ Done
        /\ arg.level \notin {"A1", "A2", "B1", "B2", "C1", "C2"}) =>
        /\ res.kind = "error" /\ res.err = "ValueError"
        /\ res.msg = "Invalid CEFR level: " \o arg.level \o MustBeOneOf

C19_UnknownLevelRaised ==
    /\ op = "get_unused_words" /\ Done /\ arg.level = "X1"
    /\ arg.doc.tokens # <<>>
    /\ res.kind = "error" /\ res.err = "ValueError"

\* the level the dictionary lookup finds for the word ("" when not found)
FoundLevel == get_word_cefr_level(env, FreshStore, arg.word).r.val

LevelRank(level) == Index(<<"A1", "A2", "B1", "B2", "C1", "C2">>, level)

SixLevels == {"A1", "A2", "B1", "B2", "C1", "C2"}

HasKey(dict, key) == \E i \in 1..Len(dict) : dict[i][1] = key

\* the entries of an analyze result other than the level
ScoreEntries(result) ==
    {result[i] : i \in {j \in 1..Len(result) : result[j][1] # "CEFR-J_Level"}}

Entries(dict) == {dict[i] : i \in 1..Len(dict)}

\* C21: for every text of two or more words, get_detailed_analysis does
\* what analyze does on that text: it fails as analyze fails, and when
\* analyze returns a CEFR-J level it reports that level and the 8 score
\* strings of analyze; and whenever validate_input accepts the text, the
\* result has Text_Statistics whose word_count is the count validate_input
\* returns.
C21_DetailedAgreesWithAnalyze ==
    (op = "get_detailed_analysis" /\ Done /\ WordRuns(arg.text) >= 2) =>
        /\ \E a \in analyze(env, FreshStore, arg.text, arg.doc, arg.ari) :
               IF a.r.kind = "error" THEN res.kind = "error" /\ res.err = a.r.err
               ELSE IF ~HasKey(a.r.val, "CEFR-J_Level") THEN res = a.r
               ELSE /\ res.kind = "ok"
                    /\ HasKey(res.val, "CEFR-J_Level")
                    /\ DictGet(res.val, "CEFR-J_Level") = DictGet(a.r.val, "CEFR-J_Level")
                    /\ HasKey(res.val, "CEFR_Scores")
                    /\ Entries(DictGet(res.val, "CEFR_Scores")) = ScoreEntries(a.r.val)
        /\ (validate_input(arg.text).kind = "ok" /\ res.kind = "ok") =>
               /\ HasKey(res.val, "Text_Statistics")
               /\ DictGet(DictGet(res.val, "Text_Statistics"), "word_count")
                      = validate_input(arg.text).val

-----------------------------------------------------------------------------
(* Concurrent analyze calls on one analyzer.  Here op, arg, res and calls
   are per thread: op[t] is where thread t stands ("run", "loading" or
   "done"), arg[t] its call, res[t] what it returned, calls[t] its local
   variables: the index i of the next entry of metric_functions (0 for the
   single-word lookup), the metrics computed so far and the tables the
   thread loaded itself.  The store is shared.  A thread that finds a table
   None first evaluates the test and only later assigns what it loaded;
   the lru caches are thread-safe, so the rest of an extractor is taken as
   one step: what it caches is a function of the loaded table alone. *)

Threads == {1, 2}

\* what the lazy property assigns to the attribute while it loads: the
\* finished dictionary, in one assignment
Publication_incremental(table) == << <<>>, table >>

Publication(table) == << table >>

Bypass(text) == ~Contains(strip(text), " ") /\ strip(text) # <<>>

ThreadArgs ==
    { [text |-> Repeat(<<"a", " ">>, MIN_WORDS), doc |-> d, ari |-> Ok(FromInt(8))] :
          d \in {d2 \in Docs : Len(d2.tokens) = 1} }
    \cup { [text |-> t, doc |-> EmptyDoc, ari |-> Ok(FromInt(0))] :
              t \in { <<"a">>, <<"b", "a">> } }

\* the part of analyze that uses the store at position i
Segment(e, st, a, i) ==
    IF i = 0 THEN get_word_cefr_level(e, st, strip(a.text))
    ELSE CalcFunc(i, e, st, a.doc, a.text, a.ari)

\* the table that part reads, if any
TableOf(i) ==
    IF i \in {0, 1, 2} THEN "word_lookup"
    ELSE IF i = 4 THEN "coca_frequencies" ELSE "none"

LoadOf(e, table) ==
    IF table = "word_lookup" THEN load_word_lookup(e) ELSE load_coca_frequencies(e)

\* the part at position i reaches the lazy property while the table is None
FindsNone(e, st, a, i) ==
    /\ TableOf(i) # "none"
    /\ ~st[TableOf(i)].loaded
    /\ \E out \in {Segment(e, st, a, i)} :
           out.st[TableOf(i)].loaded \/ out.r.kind = "error"

InitThreads ==
    /\ env \in Envs
    /\ store \in StoresOf(env)
    /\ arg \in [Threads -> ThreadArgs]
    /\ op = [t \in Threads |-> "run"]
    /\ res = [t \in Threads |-> Pending]
    /\ calls = [t \in Threads |->
                  [i |-> IF Bypass(arg[t].text) THEN 0 ELSE 1,
                   metrics |-> <<>>, loads |-> {}, k |-> 0]]

\* `if self._word_lookup is None:` evaluated to true
ObserveNone(t) ==
    /\ op[t] = "run"
    /\ FindsNone(env, store, arg[t], calls[t].i)
    /\ op' = [op EXCEPT ![t] = "loading"]
    /\ calls' = [calls EXCEPT ![t].k = 1]
    /\ UNCHANGED <<arg, res, env, store>>

\* `self._word_lookup = self._load_word_lookup()`: the load raises, or its
\* result is assigned
LoadAndAssign(t) ==
    /\ op[t] = "loading"
    /\ \E table \in {TableOf(calls[t].i)} :
       \E l \in {LoadOf(env, table)} :
          IF l.kind = "error"
          THEN /\ \E out \in {Segment(env, store, arg[t], calls[t].i)} :
                      res' = [res EXCEPT ![t] = out.r]
               /\ op' = [op EXCEPT ![t] = "done"]
               /\ UNCHANGED <<arg, calls, env, store>>
          ELSE \E pub \in {Publication(l.val)} :
               /\ store' = [store EXCEPT ![table] = Loaded(pub[calls[t].k])]
               /\ IF calls[t].k = Len(pub)
                  THEN /\ op' = [op EXCEPT ![t] = "run"]
                       /\ calls' = [calls EXCEPT ![t].loads = @ \cup {table},
                                                 ![t].k = 0]
                  ELSE /\ calls' = [calls EXCEPT ![t].k = @ + 1]
                       /\ UNCHANGED op
               /\ UNCHANGED <<arg, res, env>>

\* the part at position i on the tables as they are, and after the last
\* one process_metrics and the result
RunSegment(t) ==
    /\ op[t] = "run"
    /\ ~FindsNone(env, store, arg[t], calls[t].i)
    /\ \E i \in {calls[t].i} :
       \E out \in {Segment(env, store, arg[t], i)} :
          /\ store' = out.st
          /\ IF out.r.kind = "error"
             THEN /\ res' = [res EXCEPT ![t] = out.r]
                  /\ op' = [op EXCEPT ![t] = "done"]
                  /\ UNCHANGED calls
             ELSE IF i = 0
             THEN /\ res' = [res EXCEPT ![t] = Ok(<< <<"CEFR_Level", out.r.val>> >>)]
                  /\ op' = [op EXCEPT ![t] = "done"]
                  /\ UNCHANGED calls
             ELSE IF i < Len(METRIC_FUNCTIONS)
             THEN /\ calls' = [calls EXCEPT
                                  ![t].i = i + 1,
                                  ![t].metrics = Append(@, <<METRIC_FUNCTIONS[i], out.r.val>>)]
                  /\ UNCHANGED <<op, res>>
             ELSE \E p \in process_metrics(
                              Append(calls[t].metrics, <<METRIC_FUNCTIONS[i], out.r.val>>)) :
                  /\ res' = [res EXCEPT ![t] =
                                IF p.kind = "error" THEN p
                                ELSE Ok(<< <<"CEFR-J_Level", p.val[1]>> >> \o p.val[2])]
                  /\ op' = [op EXCEPT ![t] = "done"]
                  /\ calls' = [calls EXCEPT
                                  ![t].i = i + 1,
                                  ![t].metrics = Append(@, <<METRIC_FUNCTIONS[i], out.r.val>>)]
    /\ UNCHANGED <<arg, env>>

NextThreads ==
    \E t \in Threads : ObserveNone(t) \/ LoadAndAssign(t) \/ RunSegment(t)

SpecThreads == InitThreads /\ [][NextThreads]_vars

\* what analyze returns for the call when it runs alone
Alone(a) == { out.r : out \in analyze(env, FreshStore, a.text, a.doc, a.ari) }

\* C22: under every interleaving of two analyze calls on one analyzer,
\* whether the tables are loaded and the caches filled or not, a table a
\* thread can see is either not loaded or the whole table of the file,
\* and each call returns what it returns when it runs alone.
C22_ConcurrentAnalyzeSafe ==
    /\ \A table \in {"word_lookup", "coca_frequencies"} :
           store[table].loaded => store[table].data = LoadOf(env, table).val
    /\ \A t \in Threads :
           (op[t] = "done") => res[t] \in Alone(arg[t])

C22_BothThreadsLoadedTheTable ==
    /\ \A t \in Threads :
           /\ op[t] = "done" /\ res[t].kind = "ok"
           /\ "word_lookup" \in calls[t].loads
    /\ \E t \in Threads : ~Bypass(arg[t].text)

\* the threads that loaded the table and assigned it to the store
LoadersOf(table) == {t \in Threads : table \in calls[t].loads}

\* C23: each of the two tables is populated exactly once per store, at
\* first use: over the analyze calls made on one store at most one load
\* of a table is ever assigned, and a table that is populated is not
\* loaded again.
C23_TablePopulatedOnce ==
    \A table \in {"word_lookup", "coca_frequencies"} :
        Cardinality(LoadersOf(table)) <= 1

\* the steps of the full analysis, in the order of the code
PipelineSteps ==
    <<"validate_input", "nlp", "calculate_all_metrics", "calc_func",
      "process_metrics", "calculate_cefr_scores", "calculate_final_level",
      "map_to_cefr_j">>

\* the steps that return a result (calc_func lists the extractors run)
Failed(j) == calls[j][1] # "calc_func" /\ calls[j][2].kind = "error"

-----------------------------------------------------------------------------
(* The extractors of MetricsCalculator on their own: the call (op, the
   document and the store it finds) is drawn in InitMetrics, and one action
   per extractor applies it. *)

MaxRankTokens == 5
MaxMetricTokens == 3

SpaceToken ==
    [Token(<<" ">>, <<" ">>, "SPACE", FALSE, FALSE) EXCEPT !.is_space = TRUE]

\* tokens whose lower-cased text has rank 5, 300, 9000 and no rank, a
\* punctuation mark and a whitespace token
RankTokenKinds ==
    { Token(<<"A">>, <<"a">>, "NOUN", FALSE, FALSE),
      Token(<<"a", "b">>, <<"a", "b">>, "VERB", FALSE, FALSE),
      Token(<<"b", "a">>, <<"b", "a">>, "NOUN", FALSE, TRUE),
      Token(<<"b", "b">>, <<"b", "b">>, "ADV", FALSE, FALSE),
      Token(<<".">>, <<".">>, "PUNCT", TRUE, FALSE),
      SpaceToken }

\* the tokens of the analyses, a noun matched by its text and by its lemma
\* at different levels, a second and a third verb (one a case variant of
\* the lemma "ab"), and a be-form that is not a stop word
MetricTokenKinds ==
    TokenKinds \cup
    { Token(<<"a">>, <<"b", "a">>, "NOUN", FALSE, FALSE),
      Token(<<"b", "a">>, <<"b", "a">>, "VERB", FALSE, FALSE),
      Token(<<"A", "b">>, <<"A", "B">>, "VERB", FALSE, FALSE),
      Token(<<"b">>, <<"B", "e">>, "VERB", FALSE, FALSE) }

DocOf(ts) ==
    [tokens |-> ts, sents |-> IF ts = <<>> THEN <<>> ELSE <<ts>>,
     noun_chunks |-> NounChunks(ts), fault |-> "none"]

RankDocs == { DocOf(ts) : ts \in UNION {[1..n -> RankTokenKinds] : n \in 0..MaxRankTokens} }

MetricDocs == { DocOf(ts) : ts \in UNION {[1..n -> MetricTokenKinds] : n \in 0..MaxMetricTokens} }

\* the stores an extractor may find: new, with warm caches, and with the
\* word table replaced by another one
MetricStores ==
    StoresOf(FilesOk) \cup
    { [FreshStore EXCEPT !.word_lookup = Loaded(WORD_LOOKUP_RELOADED)] }

InitMetrics ==
    /\ \/ op = "calculate_avrfreqrank" /\ arg \in [doc : RankDocs]
       \/ op \in {"calculate_avrdiff", "calculate_bpera", "calculate_cvv1"}
          /\ arg \in [doc : MetricDocs]
    /\ env = FilesOk /\ store \in MetricStores
    /\ res = Pending /\ calls = <<>>

CalculateAvrFreqRank ==
    /\ op = "calculate_avrfreqrank" /\ res = Pending
    /\ \E out \in {calculate_avrfreqrank(env, store, arg.doc)} :
           res' = out.r /\ store' = out.st
    /\ UNCHANGED <<op, arg, calls, env>>

CalculateAvrDiff ==
    /\ op = "calculate_avrdiff" /\ res = Pending
    /\ \E out \in {calculate_avrdiff(env, store, arg.doc)} :
           res' = out.r /\ store' = out.st
    /\ UNCHANGED <<op, arg, calls, env>>

CalculateBperA ==
    /\ op = "calculate_bpera" /\ res = Pending
    /\ \E out \in {calculate_bpera(env, store, arg.doc)} :
           res' = out.r /\ store' = out.st
    /\ UNCHANGED <<op, arg, calls, env>>

CalculateCvv1 ==
    /\ op = "calculate_cvv1" /\ res = Pending
    /\ res' = calculate_cvv1(arg.doc)
    /\ UNCHANGED <<op, arg, calls, env, store>>

NextMetrics ==
    \/ CalculateAvrFreqRank
    \/ CalculateAvrDiff
    \/ CalculateBperA
    \/ CalculateCvv1

SpecMetrics == InitMetrics /\ [][NextMetrics]_vars

\* the rank of a token: the one the frequency file stores under its text
\* in any letter case, 10000 when it stores none
RankOfToken(token) ==
    IF RankVariants(token.text) = {} THEN 10000
    ELSE COCA_FREQUENCIES_JSON[CHOOSE k \in RankVariants(token.text) : TRUE]

\* the positions of the tokens that are neither punctuation nor whitespace
RankedPositions(doc) ==
    {i \in 1..Len(doc.tokens) : ~doc.tokens[i].is_punct /\ ~doc.tokens[i].is_space}

RECURSIVE RankTotal(_, _)
RankTotal(doc, I) ==
    IF I = {} THEN 0
    ELSE LET i == CHOOSE x \in I : TRUE
         IN  RankOfToken(doc.tokens[i]) + RankTotal(doc, I \ {i})

\* the largest sum that three tokens at different positions have
ThreeLargest(doc) ==
    LET I    == RankedPositions(doc)
        sums == { RankTotal(doc, {u[1], u[2], u[3]}) :
                    u \in {v \in I \X I \X I : v[1] < v[2] /\ v[2] < v[3]} }
    IN  CHOOSE m \in sums : \A x \in sums : x <= m

\* C25: calculate_avrfreqrank returns 0 for a document with no token that
\* is neither punctuation nor whitespace, the mean rank of all such tokens
\* when there are 1 to 3 of them, and with more than 3 the mean of what is
\* left after three occurrences of the largest ranks are removed (a rank
\* that several tokens share is removed once per removed token).
C25_TrimmedMeanRank ==
    (op = "calculate_avrfreqrank" /\ Done) =>
        LET I == RankedPositions(arg.doc)
            n == Cardinality(I)
        IN  /\ res.kind = "ok"
            /\ (n = 0) => res.val = FromInt(0)
            /\ (n \in 1..3) => res.val = Rat(RankTotal(arg.doc, I), n)
            /\ (n > 3) =>
                   res.val = Rat(RankTotal(arg.doc, I) - ThreeLargest(arg.doc), n - 3)

\* five tokens, four of them sharing the largest rank: three of the four
\* are removed and the fourth is averaged with the rank 5
C25_TiedLargestRemovedOnceEach ==
    /\ op = "calculate_avrfreqrank" /\ Done
    /\ Len(arg.doc.tokens) = 5 /\ Cardinality(RankedPositions(arg.doc)) = 5
    /\ Cardinality({i \in 1..5 : RankOfToken(arg.doc.tokens[i]) = 10000}) = 4
    /\ RankOfToken(arg.doc.tokens[5]) = 5
    /\ res = Ok(Rat(10005, 2))

\* the word table the extractor looked words up in
WordTable ==
    IF store.word_lookup.loaded THEN store.word_lookup.data ELSE WORD_LOOKUP_JSON

\* the level at which the table matches a token: that of its lower-cased
\* text when the text is a key, else that of its lower-cased lemma
MatchedLevel(token) ==
    IF lower(token.text) \in DOMAIN WordTable
    THEN WordTable[lower(token.text)].CEFR
    ELSE IF lower(token.lemma) \in DOMAIN WordTable
         THEN WordTable[lower(token.lemma)].CEFR
         ELSE "unknown"

\* the positions of the content words the table matches at one of the levels
MatchedAt(doc, levels) ==
    {i \in 1..Len(doc.tokens) :
        IsContentWord(doc.tokens[i]) /\ MatchedLevel(doc.tokens[i]) \in levels}

RECURSIVE DifficultyTotal(_, _)
DifficultyTotal(doc, I) ==
    IF I = {} THEN 0
    ELSE LET i == CHOOSE x \in I : TRUE
         IN  CEFR_LEVELS[MatchedLevel(doc.tokens[i])] + DifficultyTotal(doc, I \ {i})

\* C26: calculate_avrdiff returns the mean difficulty (A1 = 1 ... C2 = 6)
\* of the content words the table matches, by the lower-cased text first
\* and by the lemma only when the text is no key; unmatched words are in
\* neither the sum nor the count; the result is 0 when nothing is matched
\* and between 1 and 6 otherwise.
C26_MeanDifficultyOfMatched ==
    (op = "calculate_avrdiff" /\ Done) =>
        LET I == MatchedAt(arg.doc, SixLevels)
        IN  /\ res.kind = "ok"
            /\ (I = {}) => res.val = FromInt(0)
            /\ (I # {}) =>
                   /\ res.val = Rat(DifficultyTotal(arg.doc, I), Cardinality(I))
                   /\ FloatLessEq(FromInt(1), res.val)
                   /\ FloatLessEq(res.val, FromInt(6))

\* a noun matched by its text at A1 though its lemma is a C1 key, an
\* adjective matched by its lemma only, and an unmatched adverb: (1 + 5) / 2
C26_TextBeforeLemmaUnmatchedLeftOut ==
    /\ op = "calculate_avrdiff" /\ Done
    /\ arg.doc.tokens = << Token(<<"a">>, <<"b", "a">>, "NOUN", FALSE, FALSE),
                           Token(<<"b", "b">>, <<"b", "a">>, "ADJ", FALSE, FALSE),
                           Token(<<"b", "b">>, <<"b", "b">>, "ADV", FALSE, FALSE) >>
    /\ WordTable = WORD_LOOKUP_JSON
    /\ res = Ok(FromInt(3))

\* C27: calculate_bpera returns the number of content words matched at B1
\* or B2 over the number matched at A1 or A2 (matched by the text, else
\* by the lemma), and 0 when no content word is matched at A1 or A2; words
\* matched at C1 or C2 and unmatched words are in neither count.
C27_BOverA ==
    (op = "calculate_bpera" /\ Done) =>
        LET a == Cardinality(MatchedAt(arg.doc, {"A1", "A2"}))
            b == Cardinality(MatchedAt(arg.doc, {"B1", "B2"}))
        IN  /\ res.kind = "ok"
            /\ (a = 0) => res.val = FromInt(0)
            /\ (a > 0) => res.val = Rat(b, a)

\* a C1 verb beside a B1 verb and an A1 noun: 1 / 1
C27_CLevelInNeitherCount ==
    /\ op = "calculate_bpera" /\ Done
    /\ arg.doc.tokens = << Token(<<"a", "b">>, <<"a", "b">>, "VERB", FALSE, FALSE),
                           Token(<<"b", "a">>, <<"b", "a">>, "VERB", FALSE, FALSE),
                           Token(<<"A">>, <<"a">>, "NOUN", FALSE, FALSE) >>
    /\ WordTable = WORD_LOOKUP_JSON
    /\ MatchedAt(arg.doc, {"C1", "C2"}) = {2}
    /\ res = Ok(FromInt(1))

\* the positions of the verbs whose lemma is no form of be
VerbPositions(doc) ==
    {i \in 1..Len(doc.tokens) :
        doc.tokens[i].pos = "VERB" /\ lower(doc.tokens[i].lemma) \notin BE_VERBS}

\* C28: calculate_cvv1 returns T / sqrt(2 V), where T is the number of VERB
\* tokens whose lemma is no form of be and V the number of distinct
\* lower-cased lemmas among them, and 0 when V = 0; forms of be are in
\* neither number.  The quotient x is compared by its square, x * x * 2V
\* with T * T, to within the thousandth that the square root is taken to.
C28_VerbsOverRootOfTwiceTypes ==
    (op = "calculate_cvv1" /\ Done) =>
        LET I == VerbPositions(arg.doc)
            T == Cardinality(I)
            V == Cardinality({lower(arg.doc.tokens[i].lemma) : i \in I})
        IN  /\ res.kind = "ok"
            /\ (V = 0) => res.val = FromInt(0)
            /\ (V > 0) =>
                   /\ res.val.n > 0
                   /\ Abs(res.val.n * res.val.n * 2 * V - T * T * res.val.d * res.val.d)
                          <= (T * T * res.val.d * res.val.d) \div SQRT_SCALE
            /\ (V = 2 /\ T \in {2, 3}) => res.val = Rat(T, 2)

\* three verb tokens of two lower-cased lemmas: 3 / sqrt(4)
C28_ThreeTokensTwoTypes ==
    /\ op = "calculate_cvv1" /\ Done
    /\ arg.doc.tokens = << Token(<<"a", "b">>, <<"a", "b">>, "VERB", FALSE, FALSE),
                           Token(<<"A", "b">>, <<"A", "B">>, "VERB", FALSE, FALSE),
                           Token(<<"b", "a">>, <<"b", "a">>, "VERB", FALSE, FALSE) >>
    /\ res = Ok(Rat(3, 2))

-----------------------------------------------------------------------------
(* The global analyzer of word_lookup.py over a sequence of get_word_level
   calls.  Here store is the global _analyzer (NoObject while it is None,
   else the store of the analyzer it holds), op, arg and res are the last
   call, and calls lists the outcome of every PyCEFRizer() constructor
   call made so far. *)

MaxConstructions == 3

\* get_word_level always constructing a new analyzer
word_lookup_get_word_level_anew(e, st, spacy_model, word) ==
    Only({ IF a.r.kind = "error"
           THEN [st |-> st, r |-> a.r, calls |-> << <<"PyCEFRizer", a.r>> >>]
           ELSE Only({ [st |-> l.st, r |-> l.r, calls |-> << <<"PyCEFRizer", a.r>> >>]
                       : l \in {get_word_cefr_level(e, a.st, word)} })
           : a \in {PyCEFRizer_init(e, spacy_model)} })

\* word_lookup.get_word_level(word) with the constructor calls it makes:
\* the assignment to _analyzer happens only when PyCEFRizer() returned
word_lookup_get_word_level_calls(e, st, spacy_model, word) ==
    IF st = NoObject
    THEN Only({ IF a.r.kind = "error"
                THEN [st |-> st, r |-> a.r, calls |-> << <<"PyCEFRizer", a.r>> >>]
                ELSE Only({ [st |-> l.st, r |-> l.r, calls |-> << <<"PyCEFRizer", a.r>> >>]
                            : l \in {get_word_cefr_level(e, a.st, word)} })
                : a \in {PyCEFRizer_init(e, spacy_model)} })
    ELSE Only({ [st |-> l.st, r |-> l.r, calls |-> <<>>]
                : l \in {get_word_cefr_level(e, st, word)} })

\* the module is imported: _analyzer = None
InitGlobal ==
    /\ op = "import" /\ arg = [spacy_model |-> "ok", word |-> <<>>]
    /\ env \in Envs /\ store = NoObject
    /\ res = Ok("None") /\ calls = <<>>

\* one call of get_word_level; the spaCy model is installed or not at the
\* time of the call
GetWordLevel ==
    \E spacy_model \in {"ok", "missing"}, word \in StoreWords :
        \E out \in {word_lookup_get_word_level_calls(env, store, spacy_model, word)} :
            /\ Len(calls) + Len(out.calls) <= MaxConstructions
            /\ op' = "get_word_level"
            /\ arg' = [spacy_model |-> spacy_model, word |-> word]
            /\ res' = out.r /\ store' = out.st
            /\ calls' = calls \o out.calls
            /\ UNCHANGED env

NextGlobal == GetWordLevel

SpecGlobal == InitGlobal /\ [][NextGlobal]_vars

Constructed == {j \in 1..Len(calls) : calls[j][2].kind = "ok"}

\* C29: over any sequence of get_word_level calls at most one analyzer is
\* constructed; the global is set exactly when a construction succeeded,
\* and no constructor call follows the successful one; a call that finds
\* the global unset calls the constructor (so a failed construction is
\* attempted again by the next call), and a call that finds it set calls
\* no constructor and works on the analyzer it finds, whose caches keep
\* what the earlier calls put there.
C29_OneGlobalAnalyzer ==
    /\ [](/\ Cardinality(Constructed) <= 1
          /\ (store # NoObject) <=> (Constructed # {})
          /\ \A j \in Constructed : j = Len(calls))
    /\ [][/\ (store = NoObject) =>
                 /\ Len(calls') = Len(calls) + 1
                 /\ (calls'[Len(calls')][2].kind = "error") => store' = NoObject
          /\ (store # NoObject) =>
                 /\ calls' = calls
                 /\ store' # NoObject
                 /\ \A w \in DOMAIN store.get_word_level :
                        /\ w \in DOMAIN store'.get_word_level
                        /\ store'.get_word_level[w] = store.get_word_level[w]]_vars

\* two constructions failed, the third succeeded, and two later calls have
\* used the analyzer it made
C29_ConstructedAfterFailuresAndReused ==
    /\ op = "get_word_level" /\ Len(calls) = 3
    /\ calls[1][2].kind = "error" /\ calls[2][2].kind = "error"
    /\ Constructed = {3}
    /\ store # NoObject
    /\ Cardinality(DOMAIN store.get_word_level) >= 2
    /\ arg.spacy_model = "missing" /\ res.kind = "ok"

-----------------------------------------------------------------------------
(* The level recomputed from the published result, as test_with_file.py
   recomputes the final score from the strings of the result. *)

DigitValue(c) ==
    CASE c = "0" -> 0 [] c = "1" -> 1 [] c = "2" -> 2 [] c = "3" -> 3
      [] c = "4" -> 4 [] c = "5" -> 5 [] c = "6" -> 6 [] c = "7" -> 7
      [] c = "8" -> 8 [] c = "9" -> 9

\* the number a string of decimal digits writes
RECURSIVE DigitsValue(_)
DigitsValue(s) ==
    IF Len(s) = 0 THEN 0
    ELSE 10 * DigitsValue(SubSeq(s, 1, Len(s) - 1)) + DigitValue(SubSeq(s, Len(s), Len(s)))

RECURSIVE Pow10(_)
Pow10(k) == IF k = 0 THEN 1 ELSE 10 * Pow10(k - 1)

\* float(v) of a decimal text with a point: sign, integer digits, decimals
ParseFloat(v) ==
    LET neg   == SubSeq(v, 1, 1) = "-"
        body  == IF neg THEN SubSeq(v, 2, Len(v)) ELSE v
        p     == CHOOSE i \in 1..Len(body) : SubSeq(body, i, i) = "."
        ip    == DigitsValue(SubSeq(body, 1, p - 1))
        fs    == SubSeq(body, p + 1, Len(body))
        scale == Pow10(Len(fs))
        h     == ip * scale + DigitsValue(fs)
    IN  Rat(IF neg THEN -h ELSE h, scale)

\* the final score test_with_file.py computes from the result of analyze:
\* the scores parsed back, sorted, the first and the last dropped, the
\* rest averaged
PublishedFinalScore(result) ==
    LET scores == [i \in 1..(Len(result) - 1) |-> ParseFloat(result[i + 1][2])]
        sorted        == Sorted(scores)
        middle_scores == SubSeq(sorted, 2, Len(sorted) - 1)
    IN  RatDiv(SumSeq(middle_scores), FromInt(Len(middle_scores)))

FullResult ==
    /\ op = "analyze" /\ Done /\ res.kind = "ok"
    /\ res.val[1][1] = "CEFR-J_Level"

\* C30: the level analyze returns is the boundary-table label of the
\* trimmed mean (one minimum and one maximum dropped) of the 8 published
\* score strings read back as numbers: the aggregation worked on the
\* scores rounded to two decimals, which are the numbers published, and
\* the score it computed is the one recomputed from the publication.
C30_LevelReproducibleFromPublished ==
    FullResult =>
        /\ Len(res.val) = 9
        /\ res.val[1][2] = map_to_cefr_j(PublishedFinalScore(res.val))
        /\ CallResult("calculate_final_level").val = PublishedFinalScore(res.val)
        /\ \A i \in 1..8 :
               ParseFloat(res.val[i + 1][2])
                   \in Round2Set(apply_regression(
                           CallResult("calculate_all_metrics").val[i][2],
                           CallResult("calculate_all_metrics").val[i][1]).val)

\* a level above the lowest one, reproduced from a publication in which
\* scores were changed by the rounding (0.428 published as 0.43, 3.224
\* as 3.22)
C30_RoundedScorePublishedAndAggregated ==
    /\ FullResult
    /\ res.val[1][2] = "A1.2"
    /\ res.val[3] = <<"BperA_CEFR", "0.43">>
    /\ res.val[6] = <<"ARI_CEFR", "3.22">>
    /\ PublishedFinalScore(res.val) = Rat(68, 75)

====
